---- MODULE Spec2Model ----
(***************************************************************************)
(* Model of the rack ingestion-and-derivation pipeline of                  *)
(* datacenter-control/backend/app.py: the reload cycle (load_rack_data,    *)
(* create_sample_racks, load_network_data, update_rack_data), the rollup   *)
(* functions, the background reload thread, the on-demand reload handler   *)
(* and the rack-scoped query handlers, run as concurrent threads over the  *)
(* module-level dictionaries.                                              *)
(*                                                                         *)
(* Text is a sequence of one-character strings, so that the substring and  *)
(* pattern tests of the code are computed, not assumed.  A number is an    *)
(* integer count of hundredths (85 is 8500), which is exact for every      *)
(* value, threshold and 2-decimal rounding the code uses here.             *)
(***************************************************************************)
EXTENDS Integers, Sequences, FiniteSets, TLC

(***************************************************************************)
(* Text                                                                    *)
(***************************************************************************)

\* str.lower() on the letters the inputs use
UpperLetters == <<"A","B","C","D","E","F","G","H","I","J","K","L","M",
                  "N","O","P","Q","R","S","T","U","V","W","X","Y","Z">>

LowerLetters == <<"a","b","c","d","e","f","g","h","i","j","k","l","m",
                  "n","o","p","q","r","s","t","u","v","w","x","y","z">>

LowerChar(c) ==
    IF \E i \in 1..26 : UpperLetters[i] = c
    THEN LowerLetters[CHOOSE i \in 1..26 : UpperLetters[i] = c]
    ELSE c

Lower(s) == [i \in 1..Len(s) |-> LowerChar(s[i])]

Digits == <<"0","1","2","3","4","5","6","7","8","9">>

IsDigit(c) == \E i \in 1..10 : Digits[i] = c

DigitVal(c) == (CHOOSE i \in 1..10 : Digits[i] = c) - 1

\* the characters str.strip() removes and \s matches
IsSpace(c) == c \in {" ", "\t", "\n", "\r"}

\* sub occurs in s at position i
HasAt(s, sub, i) ==
    /\ i >= 1
    /\ i + Len(sub) - 1 <= Len(s)
    /\ \A j \in 1..Len(sub) : s[i + j - 1] = sub[j]

\* Python's  sub in s
Contains(s, sub) == \E i \in 1..(Len(s) - Len(sub) + 1) : HasAt(s, sub, i)

\* any(term in s for term in terms)
ContainsAny(s, terms) == \E k \in 1..Len(terms) : Contains(s, terms[k])

\* str.endswith
EndsWith(s, suf) == HasAt(s, suf, Len(s) - Len(suf) + 1)

\* str.strip()
Strip(s) ==
    IF \A i \in 1..Len(s) : IsSpace(s[i]) THEN <<>>
    ELSE LET a == CHOOSE i \in 1..Len(s) :
                     ~IsSpace(s[i]) /\ \A j \in 1..(i - 1) : IsSpace(s[j])
             b == CHOOSE i \in 1..Len(s) :
                     ~IsSpace(s[i]) /\ \A j \in (i + 1)..Len(s) : IsSpace(s[j])
         IN  SubSeq(s, a, b)

\* the end of the run of digits that starts at i (s[i] is a digit)
DigitRunEnd(s, i) ==
    CHOOSE e \in i..Len(s) :
        /\ \A j \in i..e : IsDigit(s[j])
        /\ (e = Len(s) \/ ~IsDigit(s[e + 1]))

RECURSIVE DigitsToInt(_)
\* int() of a run of decimal digits
DigitsToInt(ds) ==
    IF ds = <<>> THEN 0
    ELSE 10 * DigitsToInt(SubSeq(ds, 1, Len(ds) - 1)) + DigitVal(ds[Len(ds)])

\* int(match.group(1)) for a (\d+) group that starts at i
NumberAt(s, i) == DigitsToInt(SubSeq(s, i, DigitRunEnd(s, i)))

RECURSIVE IntToDigits(_)
\* str() of a non-negative int
IntToDigits(n) ==
    IF n < 10 THEN <<Digits[n + 1]>>
    ELSE IntToDigits(n \div 10) \o <<Digits[(n % 10) + 1]>>

(***************************************************************************)
(* extract_rack_number                                                     *)
(***************************************************************************)

\* "no rack number": the None that extract_rack_number returns
NoRack == 0 - 1

\* the class [_\s\-] of the filename patterns
IsSep(c) == c = "_" \/ c = "-" \/ IsSpace(c)

\* the first position at or after i that holds no separator (Len(s)+1 if none)
SkipSeps(s, i) ==
    CHOOSE k \in i..(Len(s) + 1) :
        /\ \A j \in i..(k - 1) : IsSep(s[j])
        /\ (k = Len(s) + 1 \/ ~IsSep(s[k]))

\* lit[_\s\-]*(\d+) matches with lit at position i
LitNumAt(s, lit, i) ==
    /\ HasAt(s, lit, i)
    /\ LET k == SkipSeps(s, i + Len(lit))
       IN  k <= Len(s) /\ IsDigit(s[k])

\* re.search(lit[_\s\-]*(\d+), s): the group of the leftmost match, or NoRack
SearchLitNum(s, lit) ==
    IF \E i \in 1..Len(s) : LitNumAt(s, lit, i)
    THEN LET i == CHOOSE i \in 1..Len(s) :
                     LitNumAt(s, lit, i) /\ \A j \in 1..(i - 1) : ~LitNumAt(s, lit, j)
         IN  NumberAt(s, SkipSeps(s, i + Len(lit)))
    ELSE NoRack

\* lit(\d+) matches with lit at position i (the pattern r(\d+): no separators)
LitDigitAt(s, lit, i) ==
    /\ HasAt(s, lit, i)
    /\ i + Len(lit) <= Len(s)
    /\ IsDigit(s[i + Len(lit)])

\* re.search(lit(\d+), s)
SearchLitDigit(s, lit) ==
    IF \E i \in 1..Len(s) : LitDigitAt(s, lit, i)
    THEN LET i == CHOOSE i \in 1..Len(s) :
                     LitDigitAt(s, lit, i) /\ \A j \in 1..(i - 1) : ~LitDigitAt(s, lit, j)
         IN  NumberAt(s, i + Len(lit))
    ELSE NoRack

\* (\d+)[_\s\-]*lit matches with the group starting at position i
NumLitAt(s, lit, i) ==
    /\ i <= Len(s)
    /\ IsDigit(s[i])
    /\ HasAt(s, lit, SkipSeps(s, DigitRunEnd(s, i) + 1))

\* re.search((\d+)[_\s\-]*lit, s)
SearchNumLit(s, lit) ==
    IF \E i \in 1..Len(s) : NumLitAt(s, lit, i)
    THEN LET i == CHOOSE i \in 1..Len(s) :
                     NumLitAt(s, lit, i) /\ \A j \in 1..(i - 1) : ~NumLitAt(s, lit, j)
         IN  NumberAt(s, i)
    ELSE NoRack

\* re.findall(r'\d+', filename)[0], or NoRack
FirstNumber(s) ==
    IF \E i \in 1..Len(s) : IsDigit(s[i])
    THEN NumberAt(s, CHOOSE i \in 1..Len(s) :
                         IsDigit(s[i]) /\ \A j \in 1..(i - 1) : ~IsDigit(s[j]))
    ELSE NoRack

\* the six patterns in order, then the first bare number
extract_rack_number(filename) ==
    LET f  == Lower(filename)
        p1 == SearchLitNum(f, <<"r","a","c","k">>)
        p2 == SearchLitDigit(f, <<"r">>)
        p3 == SearchLitNum(f, <<"s","e","r","v","e","r">>)
        p4 == SearchLitNum(f, <<"n","o","d","e">>)
        p5 == SearchNumLit(f, <<"r","a","c","k">>)
        p6 == SearchNumLit(f, <<"s","e","r","v","e","r">>)
    IN  IF p1 # NoRack THEN p1
        ELSE IF p2 # NoRack THEN p2
        ELSE IF p3 # NoRack THEN p3
        ELSE IF p4 # NoRack THEN p4
        ELSE IF p5 # NoRack THEN p5
        ELSE IF p6 # NoRack THEN p6
        ELSE FirstNumber(filename)

(***************************************************************************)
(* Cells, tables and dictionaries                                          *)
(***************************************************************************)

\* A cell of a DataFrame: a missing value (NaN), an integer (n), a float (n
\* hundredths), or text (s).
NaNCell == [t |-> "nan", n |-> 0, s |-> <<>>]

IntCell(n) == [t |-> "int", n |-> n, s |-> <<>>]

FloatCell(h) == [t |-> "float", n |-> h, s |-> <<>>]

StrCell(s) == [t |-> "str", n |-> 0, s |-> s]

\* pd.isna(value)
IsNa(cell) == cell.t = "nan"

\* str() of a float of h >= 0 hundredths: 42.0, 42.5, 42.25
FloatToText(h) ==
    IntToDigits(h \div 100) \o <<".">> \o
    (IF h % 10 = 0 THEN <<Digits[((h % 100) \div 10) + 1]>>
     ELSE <<Digits[((h % 100) \div 10) + 1], Digits[(h % 10) + 1]>>)

\* str(value)
StrOf(cell) ==
    IF cell.t = "str" THEN cell.s
    ELSE IF cell.t = "nan" THEN <<"n","a","n">>
    ELSE IF cell.t = "int"
    THEN (IF cell.n < 0 THEN <<"-">> \o IntToDigits(0 - cell.n) ELSE IntToDigits(cell.n))
    ELSE (IF cell.n < 0 THEN <<"-">> \o FloatToText(0 - cell.n) ELSE FloatToText(cell.n))

\* A Python dict: the keys in insertion order and the value of each key.
EmptyDict == [keys |-> <<>>, val |-> <<>>]

DictHas(d, k) == k \in DOMAIN d.val

\* d[k] = v : a new key goes last, an existing key keeps its place
DictSet(d, k, v) ==
    [keys |-> IF DictHas(d, k) THEN d.keys ELSE Append(d.keys, k),
     val  |-> [y \in (DOMAIN d.val) \cup {k} |-> IF y = k THEN v ELSE d.val[y]]]

\* nearest integer to a / b (b > 0), a tie going to the even neighbour: round()
RoundDiv(a, b) ==
    LET q == a \div b
        r == a % b
    IN  IF 2 * r < b THEN q
        ELSE IF 2 * r > b THEN q + 1
        ELSE IF q % 2 = 0 THEN q ELSE q + 1

RECURSIVE SumSeq(_)
\* sum() of a list
SumSeq(xs) == IF xs = <<>> THEN 0 ELSE xs[1] + SumSeq(Tail(xs))

\* max() of a non-empty list
MaxSeq(xs) == CHOOSE m \in {xs[i] : i \in 1..Len(xs)} : \A i \in 1..Len(xs) : xs[i] <= m

\* [d[k][field-value] for k in ks], in the order of ks
ValuesOf(d, ks) == [i \in 1..Len(ks) |-> d.val[ks[i]].value]

RECURSIVE InsertSorted(_, _)
InsertSorted(x, xs) ==
    IF xs = <<>> THEN <<x>>
    ELSE IF x <= xs[1] THEN <<x>> \o xs
    ELSE <<xs[1]>> \o InsertSorted(x, Tail(xs))

RECURSIVE Sorted(_)
\* sorted() of a list of numbers
Sorted(xs) == IF xs = <<>> THEN <<>> ELSE InsertSorted(xs[1], Sorted(Tail(xs)))

(***************************************************************************)
(* parse_sensor_value                                                      *)
(***************************************************************************)

\* a match of [-+]?\d*\.?\d+ can start at position i
NumberStartsAt(s, i) ==
    LET DigitOrDot(k) ==
            /\ k <= Len(s)
            /\ \/ IsDigit(s[k])
               \/ s[k] = "." /\ k + 1 <= Len(s) /\ IsDigit(s[k + 1])
    IN  /\ i <= Len(s)
        /\ \/ DigitOrDot(i)
           \/ s[i] \in {"-", "+"} /\ DigitOrDot(i + 1)

\* the value, in hundredths, of the match of [-+]?\d*\.?\d+ that starts at i
\* (the inputs carry at most two decimals and no exponent)
NumberValueAt(s, i) ==
    LET neg   == s[i] = "-"
        a     == IF s[i] \in {"-", "+"} THEN i + 1 ELSE i
        hasI  == IsDigit(s[a])
        e     == IF hasI THEN DigitRunEnd(s, a) ELSE a - 1
        whole == IF hasI THEN DigitsToInt(SubSeq(s, a, e)) ELSE 0
        frac  == e + 2 <= Len(s) /\ s[e + 1] = "." /\ IsDigit(s[e + 2])
        fe    == IF frac THEN DigitRunEnd(s, e + 2) ELSE e
        d1    == IF frac THEN DigitVal(s[e + 2]) ELSE 0
        d2    == IF frac /\ fe >= e + 3 THEN DigitVal(s[e + 3]) ELSE 0
        mag   == whole * 100 + d1 * 10 + d2
    IN  IF neg THEN 0 - mag ELSE mag

\* The floats that are not finite.  Every finite value of the model lies
\* strictly between NegInf and PosInf; NaN is told apart by name, and a
\* comparison that can meet it goes through FloatGt.
PosInf == 2^30

NegInf == 0 - 2^30

NaN == 2^30 + 1

IsFinite(v) == NegInf < v /\ v < PosInf

\* a > b on floats: False when a is NaN
FloatGt(a, b) == a # NaN /\ a > b

\* the text without its sign, as float() reads it: stripped, in any case
Unsigned(s) ==
    IF Strip(s) # <<>> /\ Strip(s)[1] \in {"+", "-"} THEN Tail(Lower(Strip(s)))
    ELSE Lower(Strip(s))

\* float(text) succeeds with a value that is not finite
IsFloatWord(s) ==
    Unsigned(s) \in { <<"i","n","f">>, <<"i","n","f","i","n","i","t","y">>, <<"n","a","n">> }

\* that value
FloatWord(s) ==
    IF Unsigned(s) = <<"n","a","n">> THEN NaN
    ELSE IF Strip(s)[1] = "-" THEN NegInf
    ELSE PosInf

\* float(value) if it converts, else the first number found in the text, else
\* 0.0.  Of the texts the inputs carry, float() converts the plain decimals,
\* which the pattern reads to the same value, and the words inf, infinity and
\* nan, which the pattern never sees.
parse_sensor_value(cell) ==
    IF IsNa(cell) THEN 0
    ELSE IF cell.t = "int" THEN cell.n * 100
    ELSE IF cell.t = "float" THEN cell.n
    ELSE IF IsFloatWord(cell.s) THEN FloatWord(cell.s)
    ELSE LET s == Strip(cell.s)
         IN  IF \E i \in 1..Len(s) : NumberStartsAt(s, i)
             THEN NumberValueAt(s, CHOOSE i \in 1..Len(s) :
                      NumberStartsAt(s, i) /\ \A j \in 1..(i - 1) : ~NumberStartsAt(s, j))
             ELSE 0

(***************************************************************************)
(* Rollup functions                                                        *)
(***************************************************************************)

\* A sensor reading as stored in a rack's sensor map.  `type` is "sensor" or
\* "network"; `interface` is the interface name of a network reading.
Reading(value, status, type, interface) ==
    [value |-> value, status |-> status, type |-> type, interface |-> interface]

\* the branch of calculate_rack_status that one sensor takes, from
\* status = str(sensor_data['status']).lower(), the lowered name and the value
StatusClass(status, lname, value) ==
    IF \/ Contains(status, <<"c","r","i","t","i","c","a","l">>)
       \/ Contains(status, <<"n","o","n","-","r","e","c","o","v","e","r","a","b","l","e">>)
    THEN "critical"
    ELSE IF \/ Contains(status, <<"n","o","n","-","c","r","i","t","i","c","a","l">>)
            \/ Contains(status, <<"w","a","r","n","i","n","g">>)
    THEN "warning"
    ELSE IF \/ Contains(status, <<"o","k">>)
            \/ Contains(status, <<"n","o","r","m","a","l">>)
    THEN "normal"
    ELSE IF \/ Contains(lname, <<"t","e","m","p">>)
            \/ Contains(lname, <<"t","e","m","p","e","r","a","t","u","r","e">>)
    THEN IF value > 8500 THEN "critical"
         ELSE IF value > 7500 THEN "warning"
         ELSE "normal"
    ELSE "normal"

SensorStatusClass(name, sd) == StatusClass(Lower(sd.status), Lower(name), sd.value)

\* a variant of StatusOfCounts whose thresholds are reached at equality
StatusOfCountsInclusive(critical_count, warning_count, normal_count) ==
    IF critical_count + warning_count + normal_count = 0 THEN "unknown"
    ELSE IF /\ critical_count > 0
            /\ 10 * critical_count >= critical_count + warning_count + normal_count
    THEN "critical"
    ELSE IF /\ warning_count > 0
            /\ 10 * warning_count >= 2 * (critical_count + warning_count + normal_count)
    THEN "warning"
    ELSE "normal"

\* the verdict of calculate_rack_status from its three counters
StatusOfCounts(critical_count, warning_count, normal_count) ==
    IF critical_count + warning_count + normal_count = 0 THEN "unknown"
    \* critical_count / total_sensors > 0.1
    ELSE IF /\ critical_count > 0
            /\ 10 * critical_count > critical_count + warning_count + normal_count
    THEN "critical"
    \* warning_count / total_sensors > 0.2
    ELSE IF /\ warning_count > 0
            /\ 10 * warning_count > 2 * (critical_count + warning_count + normal_count)
    THEN "warning"
    ELSE "normal"

\* the number of sensors that take the branch class
StatusCount(sensors, class) ==
    Cardinality({k \in DOMAIN sensors.val : SensorStatusClass(k, sensors.val[k]) = class})

calculate_rack_status(sensors) ==
    StatusOfCounts(StatusCount(sensors, "critical"), StatusCount(sensors, "warning"),
                   StatusCount(sensors, "normal"))

\* 'temp' in name or 'temperature' in name
IsTempName(name) ==
    \/ Contains(Lower(name), <<"t","e","m","p">>)
    \/ Contains(Lower(name), <<"t","e","m","p","e","r","a","t","u","r","e">>)

\* the samples calculate_rack_temperature collects, in dict order
TemperatureSamples(sensors) ==
    LET Keep(k) == /\ IsTempName(k)
                   /\ ~Contains(Lower(k), <<"v","o","l","t">>)
                   /\ 0 - 1000 < sensors.val[k].value
                   /\ sensors.val[k].value < 12000
    IN  ValuesOf(sensors, SelectSeq(sensors.keys, Keep))

\* a variant of TrimmedMean that cuts the samples in the order of the map
TrimmedMeanUnsorted(temps) ==
    LET n            == Len(temps)
        middle_temps == IF n > 4
                        THEN SubSeq(temps, (n \div 4) + 1, (3 * n) \div 4)
                        ELSE temps
    IN  IF n > 0
        THEN 10 * RoundDiv(SumSeq(middle_temps), 10 * Len(middle_temps))
        ELSE 4000

\* the mean of the middle half of more than four samples, of all of up to
\* four, rounded to one decimal (hundredths, a multiple of 10); 40.0 if none
TrimmedMean(temps) ==
    LET n            == Len(temps)
        middle_temps == IF n > 4
                        THEN SubSeq(Sorted(temps), (n \div 4) + 1, (3 * n) \div 4)
                        ELSE temps
    IN  IF n > 0
        THEN 10 * RoundDiv(SumSeq(middle_temps), 10 * Len(middle_temps))
        ELSE 4000

calculate_rack_temperature(sensors) == TrimmedMean(TemperatureSamples(sensors))

PowerTerms == << <<"p","o","w","e","r">>, <<"w","a","t","t">>,
                 <<"c","u","r","r","e","n","t">>, <<"a","m","p">> >>

\* a variant of PowerOf that takes a sum of exactly 10000 for watts
PowerOfInclusive(power_values, temp_sensors) ==
    IF Len(power_values) > 0
    THEN IF SumSeq(power_values) >= 1000000 THEN RoundDiv(SumSeq(power_values), 1000)
         ELSE SumSeq(power_values)
    ELSE 100 + temp_sensors * 5

\* the power of a rack from its power readings, or the estimate from the
\* number of its temperature sensors
PowerOf(power_values, temp_sensors) ==
    IF Len(power_values) > 0
    THEN IF SumSeq(power_values) > 1000000 THEN RoundDiv(SumSeq(power_values), 1000)
         ELSE SumSeq(power_values)
    ELSE 100 + temp_sensors * 5

\* the names calculate_rack_power sums over
IsPowerName(k) == ContainsAny(Lower(k), PowerTerms)

calculate_rack_power(sensors) ==
    PowerOf(ValuesOf(sensors, SelectSeq(sensors.keys, IsPowerName)),
            Cardinality({k \in DOMAIN sensors.val : IsTempName(k)}))

\* the all-zero network summary
NoNetworkMetrics ==
    [total_throughput |-> 0, avg_throughput |-> 0, max_throughput |-> 0,
     interface_count |-> 0, status |-> "normal"]

\* the summary of a non-empty list of throughputs
MetricsOf(throughput_values) ==
    [total_throughput |-> SumSeq(throughput_values),
     avg_throughput   |-> RoundDiv(SumSeq(throughput_values), Len(throughput_values)),
     max_throughput   |-> MaxSeq(throughput_values),
     interface_count  |-> Len(throughput_values),
     status           |-> IF MaxSeq(throughput_values) > 9500 THEN "critical"
                          ELSE IF MaxSeq(throughput_values) > 8500 THEN "warning"
                          ELSE "normal"]

calculate_network_metrics(network_data) ==
    IF network_data.keys = <<>> THEN NoNetworkMetrics
    ELSE MetricsOf(ValuesOf(network_data, network_data.keys))

(***************************************************************************)
(* Tables                                                                  *)
(***************************************************************************)

\* A DataFrame: the column labels in file order and the rows, each row the
\* cells in column order.
Table(cols, rows) == [cols |-> cols, rows |-> rows]

\* the first index of the set S of indices, or 0
FirstIndex(S) ==
    IF S = {} THEN 0 ELSE CHOOSE i \in S : \A j \in S : i <= j

\* random.uniform(lo, hi) as draw number k of the generator in state seed:
\* a value in [lo, hi), in the unit of lo and hi
Uniform(seed, k, lo, hi) == lo + ((seed * 1709 + k * 977) % (hi - lo))

(***************************************************************************)
(* load_network_data                                                       *)
(***************************************************************************)

InterfaceTerms == << <<"i","n","t","e","r","f","a","c","e">>, <<"p","o","r","t">>,
                     <<"n","i","c">>, <<"n","e","t","w","o","r","k">>, <<"n","a","m","e">> >>

ThroughputTerms == << <<"t","h","r","o","u","g","h","p","u","t">>,
                      <<"b","a","n","d","w","i","d","t","h">>, <<"s","p","e","e","d">>,
                      <<"r","a","t","e">>, <<"u","t","i","l","i","z","a","t","i","o","n">>,
                      <<"v","a","l","u","e">>, <<"m","b","p","s">>, <<"g","b","p","s">> >>

\* the columns the numeric fallback of the network loader leaves out
NetworkNameLabels == { <<"I","n","t","e","r","f","a","c","e">>, <<"P","o","r","t">>,
                       <<"N","a","m","e">> }

\* str(row[col]).strip() of column c of a row; <<>> (None) for no column
CellTextAt(row, c) == IF c = 0 THEN <<>> ELSE Strip(StrOf(row[c]))

\* interface_name of a network row: <<>> stands for None
NetworkRowName(cols, row) ==
    CellTextAt(row, FirstIndex({i \in 1..Len(cols) :
                                   ContainsAny(Lower(cols[i]), InterfaceTerms)
                                       /\ ~IsNa(row[i])}))

\* parse_sensor_value of the cell in column c of a row; 0 for no column
CellValueAt(row, c) == IF c = 0 THEN 0 ELSE parse_sensor_value(row[c])

\* the first throughput column of a row that holds a value, or 0
ThroughputColumn(cols, row) ==
    FirstIndex({i \in 1..Len(cols) :
                   ContainsAny(Lower(cols[i]), ThroughputTerms) /\ ~IsNa(row[i])})

\* the first column of the numeric fallback whose value is positive, or 0
NumericColumn(cols, row) ==
    FirstIndex({i \in 1..Len(cols) :
                   cols[i] \notin NetworkNameLabels /\ parse_sensor_value(row[i]) > 0})

\* throughput_value after `if throughput_value == 0:`; named is what the
\* search of the throughput columns left
ThroughputFallback(cols, row, named) ==
    IF named # 0 THEN named ELSE CellValueAt(row, NumericColumn(cols, row))

\* throughput_value of a network row
NetworkRowThroughput(cols, row) ==
    ThroughputFallback(cols, row, CellValueAt(row, ThroughputColumn(cols, row)))

\* a variant of ThroughputStatus whose thresholds are reached at equality
ThroughputStatusInclusive(throughput_value) ==
    IF throughput_value >= 9500 THEN <<"c","r","i","t","i","c","a","l">>
    ELSE IF throughput_value >= 8500 THEN <<"w","a","r","n","i","n","g">>
    ELSE <<"o","k">>

\* status of an interface from its throughput
ThroughputStatus(throughput_value) ==
    IF throughput_value > 9500 THEN <<"c","r","i","t","i","c","a","l">>
    ELSE IF throughput_value > 8500 THEN <<"w","a","r","n","i","n","g">>
    ELSE <<"o","k">>

\* the body of the row loop of load_network_data for one row
ParseNetworkRow(acc, interface_name, throughput_value) ==
    IF interface_name # <<>> /\ throughput_value > 0
    THEN [data  |-> DictSet(acc.data, interface_name,
                        [value  |-> throughput_value,
                         status |-> ThroughputStatus(throughput_value)]),
          count |-> acc.count + 1]
    ELSE acc

RECURSIVE ParseNetworkRows(_, _, _)
\* the row loop of load_network_data from row i on; acc holds network_data
\* (data) and interface_count (count)
ParseNetworkRows(table, i, acc) ==
    IF i > Len(table.rows) THEN acc
    ELSE ParseNetworkRows(table, i + 1,
             ParseNetworkRow(acc, NetworkRowName(table.cols, table.rows[i]),
                             NetworkRowThroughput(table.cols, table.rows[i])))

\* the entry of eth<i> in the sample network data, from the throughput
\* drawn, in thousandths: the value is round(throughput, 2), the status is
\* taken from the throughput as drawn
SampleInterface(throughput) ==
    [value  |-> RoundDiv(throughput, 10),
     status |-> IF throughput < 85000 THEN <<"o","k">>
                ELSE IF throughput < 95000 THEN <<"w","a","r","n","i","n","g">>
                ELSE <<"c","r","i","t","i","c","a","l">>]

RECURSIVE SampleNetworkData(_, _, _, _)
\* eth1..eth4 with random.uniform(10, 80), from interface i on, added to
\* network_data
SampleNetworkData(seed, base, i, network_data) ==
    IF i > 4 THEN network_data
    ELSE SampleNetworkData(seed, base, i + 1,
             DictSet(network_data, <<"e","t","h">> \o IntToDigits(i),
                     SampleInterface(Uniform(seed, base + i, 10000, 80000))))

\* what load_network_data stores for a file with these readings
NetworkEntry(network_data, interface_count) ==
    [data            |-> network_data,
     interface_count |-> interface_count,
     metrics         |-> calculate_network_metrics(network_data)]

\* a variant of NetworkFileEntry that draws the four sample interfaces
\* whatever the table holds
SampleNetworkEntry(file, seed, k) ==
    NetworkEntry(SampleNetworkData(seed, 4 * k, 1, EmptyDict), 4)

\* a variant of NetworkEntryOf that stores what the rows gave, even nothing
NetworkEntryAsParsed(parsed, seed, k) ==
    NetworkEntry(parsed.data, parsed.count)

\* `if not network_data:` after the row loop
NetworkEntryOf(parsed, seed, k) ==
    IF parsed.data.keys = <<>>
    THEN NetworkEntry(SampleNetworkData(seed, 4 * k, 1, EmptyDict), 4)
    ELSE NetworkEntry(parsed.data, parsed.count)

\* what load_network_data stores for one readable file
NetworkFileEntry(file, seed, k) ==
    NetworkEntryOf(ParseNetworkRows(file.table, 1, [data |-> EmptyDict, count |-> 0]),
                   seed, k)

RECURSIVE LoadNetworkFiles(_, _, _, _)
\* the file loop of load_network_data from file k on: network_files, a
\* function from rack id to entry.  A file without rack number is skipped
\* (rack_id is None), and so is a file whose read raises.
LoadNetworkFiles(files, k, seed, network_files) ==
    IF k > Len(files) THEN network_files
    ELSE LET file    == files[k]
             rack_id == extract_rack_number(file.name)
         IN  IF ~EndsWith(file.name, <<".","c","s","v">>) \/ rack_id = NoRack \/ ~file.readable
             THEN LoadNetworkFiles(files, k + 1, seed, network_files)
             ELSE LoadNetworkFiles(files, k + 1, seed,
                      [y \in (DOMAIN network_files) \cup {rack_id} |->
                          IF y = rack_id THEN NetworkFileEntry(file, seed, k)
                          ELSE network_files[y]])

\* load_network_data() on a listable or missing network folder
load_network_data(folder, seed) ==
    IF folder.state = "missing" THEN <<>>
    ELSE LoadNetworkFiles(folder.files, 1, seed, <<>>)

(***************************************************************************)
(* update_rack_data: one rack                                              *)
(***************************************************************************)

\* sensor_name of a sensor row: <<>> stands for None (no name column)
SensorRowName(cols, row) ==
    CellTextAt(row, FirstIndex({i \in 1..Len(cols) :
                                   \/ Contains(Lower(cols[i]), <<"s","e","n","s","o","r">>)
                                   \/ Contains(Lower(cols[i]), <<"n","a","m","e">>)}))

\* the columns the numeric fallback of the sensor loader leaves out
SensorRoleLabels == { <<"S","e","n","s","o","r">>, <<"S","t","a","t","u","s">>,
                      <<"U","n","i","t","s">> }

\* the first column named for the value, or 0
SensorValueColumn(cols) ==
    FirstIndex({i \in 1..Len(cols) :
                   \/ Contains(Lower(cols[i]), <<"v","a","l","u","e">>)
                   \/ Contains(Lower(cols[i]), <<"r","e","a","d","i","n","g">>)})

\* the first column the numeric fallback tries, or 0
SensorFallbackColumn(cols) ==
    FirstIndex({i \in 1..Len(cols) : cols[i] \notin SensorRoleLabels})

\* sensor_value of a sensor row
SensorRowValue(cols, row) ==
    CellValueAt(row, IF SensorValueColumn(cols) # 0 THEN SensorValueColumn(cols)
                     ELSE SensorFallbackColumn(cols))

\* the first column named for the status, or 0
SensorStatusColumn(cols) ==
    FirstIndex({i \in 1..Len(cols) : Contains(Lower(cols[i]), <<"s","t","a","t","u","s">>)})

\* sensor_status when no status was found in the row
StatusFromValue(sensor_name, sensor_value) ==
    IF Contains(Lower(sensor_name), <<"t","e","m","p">>)
    THEN IF FloatGt(sensor_value, 8500) THEN <<"c","r","i","t","i","c","a","l">>
         ELSE IF FloatGt(sensor_value, 7500) THEN <<"w","a","r","n","i","n","g">>
         ELSE <<"o","k">>
    ELSE <<"o","k">>

\* sensor_status of a sensor row
SensorRowStatus(cols, row, sensor_name, sensor_value) ==
    IF SensorStatusColumn(cols) # 0 /\ ~IsNa(row[SensorStatusColumn(cols)])
    THEN CellTextAt(row, SensorStatusColumn(cols))
    ELSE StatusFromValue(sensor_name, sensor_value)

\* the body of the row loop of update_rack_data for one row
ProcessSensorRow(acc, cols, row, sensor_name, sensor_value) ==
    IF sensor_name = <<>> THEN acc
    ELSE [sensors |-> DictSet(acc.sensors, sensor_name,
                          Reading(sensor_value,
                                  SensorRowStatus(cols, row, sensor_name, sensor_value),
                                  "sensor", <<>>)),
          count   |-> acc.count + 1,
          state   |-> [y \in (DOMAIN acc.state) \cup {sensor_name} |->
                          IF y = sensor_name THEN sensor_value ELSE acc.state[y]]]

RECURSIVE ProcessSensorRows(_, _, _)
\* the row loop of update_rack_data from row i on; acc holds sensors_dict
\* (sensors), sensor_count (count) and current_state (state)
ProcessSensorRows(table, i, acc) ==
    IF i > Len(table.rows) THEN acc
    ELSE ProcessSensorRows(table, i + 1,
             ProcessSensorRow(acc, table.cols, table.rows[i],
                              SensorRowName(table.cols, table.rows[i]),
                              SensorRowValue(table.cols, table.rows[i])))

RECURSIVE AddNetworkSensors(_, _, _)
\* the loop over net_info['data'] from interface i on
AddNetworkSensors(net_data, i, acc) ==
    IF i > Len(net_data.keys) THEN acc
    ELSE LET interface == net_data.keys[i]
             nd        == net_data.val[interface]
         IN  AddNetworkSensors(net_data, i + 1,
                 [sensors |-> DictSet(acc.sensors, <<"N","e","t","w","o","r","k","_">> \o interface,
                                  Reading(nd.value, nd.status, "network", interface)),
                  count   |-> acc.count + 1,
                  state   |-> acc.state])

TemperatureTerms == << <<"t","e","m","p">>, <<"t","e","m","p","e","r","a","t","u","r","e">>,
                       <<"t","h","e","r","m","a","l">> >>

PowerCategoryTerms == << <<"p","o","w","e","r">>, <<"w","a","t","t">>, <<"v","o","l","t">>,
                         <<"c","u","r","r","e","n","t">>, <<"v","r","m">>, <<"v","b","a","t">>,
                         <<"v","c","c">>, <<"v","c","p","u">>, <<"v","d","i","m","m">> >>

CpuTerms == << <<"c","p","u">>, <<"p","r","o","c","e","s","s","o","r">>, <<"c","o","r","e">> >>

MemoryTerms == << <<"m","e","m","o","r","y">>, <<"r","a","m">>, <<"s","w","a","p">>,
                  <<"d","i","m","m">> >>

CoolingTerms == << <<"f","a","n">>, <<"r","p","m">>, <<"c","o","o","l","i","n","g">>,
                   <<"a","i","r","f","l","o","w">> >>

NetworkTerms == << <<"n","e","t","w","o","r","k">>, <<"i","n","t","e","r","f","a","c","e">>,
                   <<"p","o","r","t">>, <<"n","i","c">>,
                   <<"t","h","r","o","u","g","h","p","u","t">>,
                   <<"b","a","n","d","w","i","d","t","h">> >>

DiskTerms == << <<"d","i","s","k">>, <<"s","t","o","r","a","g","e">>, <<"i","o">>,
                <<"r","e","a","d">>, <<"w","r","i","t","e">>, <<"h","d","d">>, <<"s","a","s">> >>

EnvironmentTerms == << <<"h","u","m","i","d","i","t","y">>, <<"m","o","i","s","t","u","r","e">> >>

\* a variant of SensorCategory that files every network reading under
\* network, whatever its name
SensorCategoryByKind(sensor_name, sensor_data) ==
    LET sensor_lower == Lower(sensor_name)
    IN  IF sensor_data.type = "network" THEN "network"
        ELSE IF /\ ContainsAny(sensor_lower, TemperatureTerms)
                /\ ~Contains(sensor_lower, <<"v","o","l","t">>) THEN "temperature"
        ELSE IF ContainsAny(sensor_lower, PowerCategoryTerms) THEN "power"
        ELSE IF ContainsAny(sensor_lower, CpuTerms) THEN "cpu"
        ELSE IF ContainsAny(sensor_lower, MemoryTerms) THEN "memory"
        ELSE IF ContainsAny(sensor_lower, CoolingTerms) THEN "cooling"
        ELSE IF ContainsAny(sensor_lower, NetworkTerms) THEN "network"
        ELSE IF ContainsAny(sensor_lower, DiskTerms) THEN "disk"
        ELSE IF ContainsAny(sensor_lower, EnvironmentTerms) THEN "environment"
        ELSE "other"

\* the category the if/elif chain of update_rack_data gives one sensor
SensorCategory(sensor_name, sensor_data) ==
    LET sensor_lower == Lower(sensor_name)
    IN  IF /\ ContainsAny(sensor_lower, TemperatureTerms)
           /\ ~Contains(sensor_lower, <<"v","o","l","t">>) THEN "temperature"
        ELSE IF ContainsAny(sensor_lower, PowerCategoryTerms) THEN "power"
        ELSE IF ContainsAny(sensor_lower, CpuTerms) THEN "cpu"
        ELSE IF ContainsAny(sensor_lower, MemoryTerms) THEN "memory"
        ELSE IF ContainsAny(sensor_lower, CoolingTerms) THEN "cooling"
        ELSE IF \/ sensor_data.type = "network"
                \/ ContainsAny(sensor_lower, NetworkTerms) THEN "network"
        ELSE IF ContainsAny(sensor_lower, DiskTerms) THEN "disk"
        ELSE IF ContainsAny(sensor_lower, EnvironmentTerms) THEN "environment"
        ELSE "other"

(***************************************************************************)
(* create_sample_racks                                                     *)
(***************************************************************************)

\* the number of placeholder racks: range(1, 6)
SampleRackCount == 5

sample_sensors ==
    << <<"C","P","U","1"," ","T","e","m","p">>, <<"C","P","U","2"," ","T","e","m","p">>,
       <<"S","y","s","t","e","m"," ","T","e","m","p">>, <<"F","A","N","1">>,
       <<"F","A","N","2">>, <<"1","2","V">>, <<"5","V","C","C">>,
       <<"3",".","3","V","C","C">>,
       <<"P","1","-","D","I","M","M","A","1"," ","T","e","m","p">>,
       <<"V","c","p","u","1">> >>

\* value and status that create_sample_racks gives sample sensor number j of
\* a rack; k is the number of the first random draw of this sensor
SampleSensorReading(seed, k, sensor) ==
    IF Contains(sensor, <<"T","e","m","p">>)
    THEN LET base_temp == 4000 + Uniform(seed, k, 0 - 500, 1000)
         IN  IF Contains(sensor, <<"C","P","U">>)
             THEN LET value == base_temp + Uniform(seed, k + 1, 500, 2000)
                  IN  [value  |-> value,
                       status |-> IF value < 7000 THEN <<"o","k">>
                                  ELSE IF value < 8000 THEN <<"w","a","r","n","i","n","g">>
                                  ELSE <<"c","r","i","t","i","c","a","l">>]
             ELSE [value |-> base_temp + Uniform(seed, k + 1, 0 - 500, 500), status |-> <<"o","k">>]
    ELSE IF Contains(sensor, <<"F","A","N">>)
    THEN [value |-> Uniform(seed, k, 100000, 300000), status |-> <<"o","k">>]
    ELSE IF Contains(sensor, <<"V">>)
    THEN [value  |-> IF Contains(sensor, <<"1","2","V">>) THEN Uniform(seed, k, 1190, 1210)
                     ELSE IF Contains(sensor, <<"5","V">>) THEN Uniform(seed, k, 495, 505)
                     ELSE IF Contains(sensor, <<"3",".","3","V">>) THEN Uniform(seed, k, 328, 332)
                     ELSE Uniform(seed, k, 100, 150),
          status |-> <<"o","k">>]
    ELSE [value |-> Uniform(seed, k, 2000, 4000), status |-> <<"o","k">>]

\* the dummy dataframe of a sample rack: columns Sensor, Value, Units, Status
SampleTable(seed, rack_id) ==
    Table(<< <<"S","e","n","s","o","r">>, <<"V","a","l","u","e">>,
             <<"U","n","i","t","s">>, <<"S","t","a","t","u","s">> >>,
          [j \in 1..Len(sample_sensors) |->
              LET r == SampleSensorReading(seed, 20 * rack_id + 2 * j, sample_sensors[j])
              IN  << StrCell(sample_sensors[j]), FloatCell(r.value),
                     StrCell(<<"-">>), StrCell(r.status) >>])

\* the value stored as rack_files[rack_id] for a sample rack; the dataframe is
\* held by reference (see DataFrame)
SampleRackFile(seed, rack_id) ==
    [filename |-> <<"s","a","m","p","l","e","_","r","a","c","k","_">> \o IntToDigits(rack_id)
                  \o <<".","c","s","v">>,
     dataframe |-> [kind |-> "sample", a |-> seed, b |-> rack_id]]

(***************************************************************************)
(* The input folders                                                       *)
(***************************************************************************)

\* A file of a folder: its name, whether pd.read_csv succeeds on it, and the
\* table read_csv returns.
File(name, readable, table) == [name |-> name, readable |-> readable, table |-> table]

\* A folder: "missing" (os.path.exists is False), "ok" (os.listdir returns
\* files, in this order) or "error" (the path exists and os.listdir raises).
Folder(state, files) == [state |-> state, files |-> files]

SensorCols == << <<"S","e","n","s","o","r">>, <<"V","a","l","u","e">>, <<"S","t","a","t","u","s">> >>

NetworkCols == << <<"I","n","t","e","r","f","a","c","e">>,
                  <<"T","h","r","o","u","g","h","p","u","t">> >>

\* rack 1: a CPU temperature and a power reading
TableRack1 ==
    Table(SensorCols,
          << << StrCell(<<"C","P","U","1"," ","T","e","m","p">>), StrCell(<<"6","2",".","5","C">>),
                StrCell(<<"o","k">>) >>,
             << StrCell(<<"P","S","U"," ","P","o","w","e","r">>), IntCell(450),
                StrCell(<<"o","k">>) >> >>)

\* rack 1 after its table changed: one other sensor, one row without name
TableRack1Changed ==
    Table(SensorCols,
          << << StrCell(<<"I","n","l","e","t"," ","T","e","m","p">>), IntCell(88), NaNCell >>,
             << StrCell(<<" ">>), IntCell(3), StrCell(<<"o","k">>) >> >>)

\* rack 2: a fan
TableRack2 ==
    Table(SensorCols,
          << << StrCell(<<"F","A","N","1">>), IntCell(1200), StrCell(<<"o","k">>) >> >>)

\* a table whose only row has a blank name: it yields no sensor
TableUnnamed ==
    Table(SensorCols,
          << << StrCell(<<" ">>), IntCell(7), StrCell(<<"o","k">>) >> >>)

\* network table with one interface above the critical threshold
TableNetBusy ==
    Table(NetworkCols, << << StrCell(<<"e","t","h","0">>), IntCell(96) >> >>)

\* network table whose only row has no positive throughput
TableNetIdle ==
    Table(NetworkCols, << << StrCell(<<"e","t","h","0">>), IntCell(0) >> >>)

FileRack1 == <<"r","a","c","k","1",".","c","s","v">>

FileRack2 == <<"r","a","c","k","_","2",".","c","s","v">>

FileR2 == <<"r","2",".","c","s","v">>

FileRack3 == <<"r","a","c","k","3",".","c","s","v">>

FileNotes == <<"n","o","t","e","s",".","c","s","v">>

FileRack0 == <<"r","a","c","k","0",".","c","s","v">>

FileRack3Txt == <<"r","a","c","k","3",".","t","x","t">>

\* The inputs the environment moves through.  Each is a pair of folders
\* (CSV_FOLDER, NETWORK_FOLDER).
FsConfigs ==
    << \* 1: the first file of rack 2 unreadable, a file without rack number,
       \*    rack 1, a second file of rack 2; an unreadable network table
       [csv |-> Folder("ok", << File(FileRack2, FALSE, TableRack2),
                                File(FileNotes, TRUE, TableRack2),
                                File(FileRack1, TRUE, TableRack1),
                                File(FileR2, TRUE, TableRack2) >>),
        net |-> Folder("ok", << File(FileRack2, FALSE, TableNetBusy),
                                File(FileRack1, TRUE, TableNetBusy) >>)],
       \* 2: no sensor folder; a network table for rack 1
       [csv |-> Folder("missing", <<>>),
        net |-> Folder("ok", << File(FileRack1, TRUE, TableNetBusy) >>)],
       \* 3: rack 1 changed, rack 0, a non-csv file; the network folder cannot be listed
       [csv |-> Folder("ok", << File(FileRack1, TRUE, TableRack1Changed),
                                File(FileRack0, TRUE, TableRack2),
                                File(FileRack3Txt, TRUE, TableRack2) >>),
        net |-> Folder("error", <<>>)],
       \* 4: racks 1 and 2, and rack 3 whose table yields no sensor; the network
       \*    table of rack 2 yields no interface
       [csv |-> Folder("ok", << File(FileRack1, TRUE, TableRack1Changed),
                                File(FileRack2, TRUE, TableRack2),
                                File(FileRack3, TRUE, TableUnnamed) >>),
        net |-> Folder("ok", << File(FileRack2, TRUE, TableNetIdle) >>)],
       \* 5: the sensor folder cannot be listed
       [csv |-> Folder("error", <<>>),
        net |-> Folder("missing", <<>>)],
       \* 6: a sensor folder without table files, no network folder
       [csv |-> Folder("ok", << File(FileRack3Txt, TRUE, TableRack2) >>),
        net |-> Folder("missing", <<>>)] >>

\* how many of the inputs above the environment uses
NumFs == 5

\* how many generator states a random draw is taken from
NumSeeds == 2

\* how many reload requests are served
MaxReloadRequests == 1

\* the inputs (indices of FsConfigs) under which a reload request arrives
ReloadInputs == {1}

(***************************************************************************)
(* Tables of the functions above on the inputs                             *)
(***************************************************************************)

\* the dataframe a rack_files entry refers to: a table read from a file of
\* an input, or the dummy dataframe of a sample rack
DataFrame(ref) ==
    IF ref.kind = "sample" THEN SampleTable(ref.a, ref.b)
    ELSE FsConfigs[ref.a].csv.files[ref.b].table

\* every dataframe a reload can hold
DataFrameRefs ==
    {[kind |-> "sample", a |-> seed, b |-> rack_id] :
        seed \in 1..NumSeeds, rack_id \in 1..SampleRackCount}
    \cup UNION {{[kind |-> "file", a |-> i, b |-> j] :
                    j \in 1..Len(FsConfigs[i].csv.files)} : i \in 1..Len(FsConfigs)}

\* the row loop of update_rack_data on each dataframe, begun with an empty
\* sensors_dict; state holds the writes the loop makes to current_state
RowsOf ==
    [ref \in DataFrameRefs |->
        ProcessSensorRows(DataFrame(ref), 1,
            [sensors |-> EmptyDict, count |-> 0, state |-> <<>>])]

\* load_network_data() on each input, for each state of the generator
NetworkOf ==
    [i \in 1..Len(FsConfigs) |->
        [seed \in 1..NumSeeds |->
            IF FsConfigs[i].net.state = "error" THEN <<>>
            ELSE load_network_data(FsConfigs[i].net, seed)]]

\* the states of the generator that give distinct outcomes (one state stands
\* for all that give the same outcome)
DistinctSeeds(outcomes) ==
    {seed \in DOMAIN outcomes :
        \A other \in 1..(seed - 1) : outcomes[other] # outcomes[seed]}

\* the states of the generator to tell apart in load_network_data() on input i
NetworkSeeds(i) == DistinctSeeds(NetworkOf[i])

(***************************************************************************)
(* update_rack_data: the entries of one rack                               *)
(***************************************************************************)

\* sensors_dict, sensor_count and current_state after the rows and the
\* network readings of one rack; rows is the outcome of the row loop on the
\* rack's dataframe
RackSensors(rack_id, rows, network_data) ==
    IF rack_id \in DOMAIN network_data
    THEN AddNetworkSensors(network_data[rack_id].data, 1, rows)
    ELSE rows

\* the value stored as rack_data[rack_id]
RackEntry(rack_id, built, network_data) ==
    [sensors      |-> built.sensors,
     status       |-> calculate_rack_status(built.sensors),
     temperature  |-> calculate_rack_temperature(built.sensors),
     power        |-> calculate_rack_power(built.sensors),
     network      |-> IF rack_id \in DOMAIN network_data
                      THEN network_data[rack_id].metrics
                      ELSE NoNetworkMetrics,
     sensor_count |-> built.count]

Categories == {"temperature", "power", "cpu", "memory", "cooling", "network", "disk",
               "environment", "other"}

\* the branch of the categorisation loop that each sensor of a rack takes
SensorCategories(sensors) ==
    [k \in DOMAIN sensors.val |-> SensorCategory(k, sensors.val[k])]

\* a variant of CategorySets that also files under cpu every name with cpu
CategorySetsByWord(category) ==
    [c \in Categories |->
        {k \in DOMAIN category :
            category[k] = c \/ (c = "cpu" /\ Contains(Lower(k), <<"c","p","u">>))}]

\* the names the categorisation loop adds to each set of sensor_categories
CategorySets(category) ==
    [c \in Categories |-> {k \in DOMAIN category : category[k] = c}]

\* temp_count, power_count, network_count, cooling_count
CategoryCount(category, c) == Cardinality({k \in DOMAIN category : category[k] = c})

\* the value stored as rack_metadata[rack_id]
MetadataEntry(filename, sensor_count, category) ==
    [filename |-> filename,
     sensor_categories |-> [temperature |-> CategoryCount(category, "temperature"),
                            power       |-> CategoryCount(category, "power"),
                            network     |-> CategoryCount(category, "network"),
                            cooling     |-> CategoryCount(category, "cooling"),
                            total       |-> sensor_count]]

\* a variant of RackWrites that writes the rack also when sensors_dict is empty
RackWritesAlways(rack_id, filename, network_data, built, category) ==
    [any        |-> TRUE,
     writes     |-> built.state,
     entry      |-> RackEntry(rack_id, built, network_data),
     categories |-> CategorySets(category),
     metadata   |-> MetadataEntry(filename, built.count, category)]

\* what the body of the loop of update_rack_data does for one item of
\* rack_files: whether sensors_dict is non-empty (any), the writes to
\* current_state, and the values for rack_data, sensor_categories and
\* rack_metadata
RackWrites(rack_id, filename, network_data, built, category) ==
    [any        |-> built.sensors.keys # <<>>,
     writes     |-> built.state,
     entry      |-> RackEntry(rack_id, built, network_data),
     categories |-> CategorySets(category),
     metadata   |-> MetadataEntry(filename, built.count, category)]

\* the same, from sensors_dict once its loops are over
RackWritesOf(rack_id, filename, network_data, built) ==
    RackWrites(rack_id, filename, network_data, built, SensorCategories(built.sensors))

\* the body of the loop of update_rack_data for one item of rack_files
RackUpdate(rack_id, rack_info, network_data) ==
    RackWritesOf(rack_id, rack_info.filename, network_data,
                 RackSensors(rack_id, RowsOf[rack_info.dataframe], network_data))

(***************************************************************************)
(* Synthetic servers                                                       *)
(***************************************************************************)

\* 'cpu' in k.lower() and 'temp' in k.lower()
IsCpuTempName(k) ==
    Contains(Lower(k), <<"c","p","u">>) /\ Contains(Lower(k), <<"t","e","m","p">>)

\* re.search(r'cpu\d+', sensor_name.lower())
IsCpuNumbered(k) ==
    \E i \in 1..Len(k) :
        HasAt(Lower(k), <<"c","p","u">>, i) /\ i + 3 <= Len(k) /\ IsDigit(k[i + 3])

\* the names of the CPU temperature sensors of a rack, in the order of the dict
CpuTempNames(rack_sensors) == SelectSeq(rack_sensors.keys, IsCpuTempName)

\* cpu_sensors of get_rack_servers: the CPU temperature sensors or, when
\* there is none, the sensors named cpu<digits>
ListedCpuSensors(rack_sensors) ==
    IF CpuTempNames(rack_sensors) # <<>> THEN CpuTempNames(rack_sensors)
    ELSE SelectSeq(rack_sensors.keys, IsCpuNumbered)

\* max(1, n if n else 2)
CountOrTwo(n) == IF n = 0 THEN 2 ELSE IF n > 1 THEN n ELSE 1

\* server_count of get_rack_servers
ListedServerCount(rack_sensors) == CountOrTwo(Len(ListedCpuSensors(rack_sensors)))

\* max_servers of get_server_metrics
MaxServers(rack_sensors) == CountOrTwo(Len(CpuTempNames(rack_sensors)))

\* a sensor name holds 'temp' and one of CPU<id>, CPU <id>, P<id>, lowered
MatchesServer(k, server_id) ==
    /\ Contains(Lower(k), <<"t","e","m","p">>)
    /\ \/ Contains(Lower(k), <<"c","p","u">> \o IntToDigits(server_id))
       \/ Contains(Lower(k), <<"c","p","u"," ">> \o IntToDigits(server_id))
       \/ Contains(Lower(k), <<"p">> \o IntToDigits(server_id))

\* cpu_temp: the value of the first sensor named for this server, else the
\* server_id-th CPU temperature, else rack_temp + ((server_id - 1) / 10) * 5 - 2.5
CpuTemp(server_id, rack_sensors) ==
    LET Own(k) == MatchesServer(k, server_id)
    IN  IF SelectSeq(rack_sensors.keys, Own) # <<>>
        THEN rack_sensors.val[SelectSeq(rack_sensors.keys, Own)[1]].value
        ELSE IF server_id <= Len(CpuTempNames(rack_sensors))
        THEN rack_sensors.val[CpuTempNames(rack_sensors)[server_id]].value
        ELSE calculate_rack_temperature(rack_sensors) + (server_id - 1) * 50 - 250

ThermalStatus(cpu_temp) ==
    IF cpu_temp > 8500 THEN "critical"
    ELSE IF cpu_temp > 7500 THEN "warning"
    ELSE IF cpu_temp < 2000 THEN "cold"
    ELSE "normal"

\* 'power' in k.lower() or 'watt' in k.lower()
IsPowerOrWatt(k) ==
    Contains(Lower(k), <<"p","o","w","e","r">>) \/ Contains(Lower(k), <<"w","a","t","t">>)

\* power_status, from avg_power = sum(power_values) / len(power_values)
ServerPowerStatus(power_values) ==
    IF power_values = <<>> THEN "normal"
    ELSE IF SumSeq(power_values) > 100000 * Len(power_values) THEN "critical"
    ELSE IF SumSeq(power_values) > 80000 * Len(power_values) THEN "warning"
    ELSE "normal"

\* network_values: the values of the readings of type 'network'
NetworkValues(rack_sensors) ==
    LET IsNetwork(k) == rack_sensors.val[k].type = "network"
    IN  ValuesOf(rack_sensors, SelectSeq(rack_sensors.keys, IsNetwork))

\* server_count of generate_server_from_sensors
NetworkServerCount(rack_sensors) ==
    IF Len(CpuTempNames(rack_sensors)) > 1 THEN Len(CpuTempNames(rack_sensors)) ELSE 1

\* round(network_usage, 1) for
\* network_usage = min(100, (total_network / server_count) * (server_id / server_count))
NetworkUsage(total_network, server_count, server_id) ==
    IF total_network * server_id > 10000 * server_count * server_count THEN 10000
    ELSE RoundDiv(total_network * server_id, 10 * server_count * server_count) * 10

\* network_status, from the same network_usage before it is rounded
NetworkUsageStatus(total_network, server_count, server_id) ==
    IF total_network * server_id > 9500 * server_count * server_count THEN "critical"
    ELSE IF total_network * server_id > 8500 * server_count * server_count THEN "warning"
    ELSE "normal"

CoolingStatus(cpu_temp) ==
    IF cpu_temp > 7500 THEN "insufficient"
    ELSE IF cpu_temp < 2500 THEN "excessive"
    ELSE "normal"

\* round(cpu_usage, 1) for cpu_usage = min(100, max(0, (cpu_temp - 30) * 1.5))
CpuUsage(cpu_temp) ==
    IF cpu_temp <= 3000 THEN 0
    ELSE IF (cpu_temp - 3000) * 3 >= 20000 THEN 10000
    ELSE RoundDiv((cpu_temp - 3000) * 3, 20) * 10

\* the status part of a server, from cpu_temp, power_values and the network
\* status
ServerStatus(cpu_temp, power_values, network_status) ==
    [thermal |-> ThermalStatus(cpu_temp),
     power   |-> ServerPowerStatus(power_values),
     network |-> network_status,
     cooling |-> CoolingStatus(cpu_temp),
     overall |-> IF ThermalStatus(cpu_temp) \in {"critical", "warning"}
                 THEN ThermalStatus(cpu_temp) ELSE "normal"]

\* the server data, from cpu_temp, network_values and the two random draws
\* (the generator has made k draws before); server_name and position repeat
\* rack_id and server_id and are left out
ServerData(rack_id, server_id, rack_sensors, cpu_temp, network_values, seed, k) ==
    [rack_id       |-> rack_id,
     server_id     |-> server_id,
     temperature   |-> RoundDiv(cpu_temp, 10) * 10,
     power_usage   |-> RoundDiv(300000 + Uniform(seed, k + 2, 0 - 50000, 100000), 1000) * 100,
     cpu_usage     |-> CpuUsage(cpu_temp),
     memory_usage  |-> RoundDiv(40000 + Uniform(seed, k + 1, 0 - 10000, 20000), 100) * 10,
     network_usage |-> IF network_values = <<>> THEN 5000
                       ELSE NetworkUsage(SumSeq(network_values),
                                         NetworkServerCount(rack_sensors), server_id),
     status        |-> ServerStatus(cpu_temp,
                           ValuesOf(rack_sensors, SelectSeq(rack_sensors.keys, IsPowerOrWatt)),
                           IF network_values = <<>> THEN "normal"
                           ELSE NetworkUsageStatus(SumSeq(network_values),
                                                   NetworkServerCount(rack_sensors),
                                                   server_id))]

generate_server_from_sensors(rack_id, server_id, rack_sensors, seed, k) ==
    ServerData(rack_id, server_id, rack_sensors, CpuTemp(server_id, rack_sensors),
               NetworkValues(rack_sensors), seed, k)

\* GET /api/rack/<rack_id>/servers on the rack table registry: the status
\* code and the body of the response
get_rack_servers(registry, rack_id, seed) ==
    IF rack_id \notin DOMAIN registry
    THEN [code |-> 404, available_racks |-> DOMAIN registry, server_count |-> 0,
          servers |-> <<>>]
    ELSE [code |-> 200, available_racks |-> {},
          server_count |-> ListedServerCount(registry[rack_id].sensors),
          servers |-> [server_id \in 1..ListedServerCount(registry[rack_id].sensors) |->
                          generate_server_from_sensors(rack_id, server_id,
                              registry[rack_id].sensors, seed, 2 * (server_id - 1))]]

\* GET /api/rack/<rack_id>/server/<server_id>: the status code and, in
\* servers, the server of the body
get_server_metrics(registry, rack_id, server_id, seed) ==
    IF rack_id \notin DOMAIN registry THEN [code |-> 404, servers |-> <<>>]
    ELSE IF server_id < 1 \/ server_id > MaxServers(registry[rack_id].sensors)
    THEN [code |-> 404, servers |-> <<>>]
    ELSE [code |-> 200,
          servers |-> <<generate_server_from_sensors(rack_id, server_id,
                            registry[rack_id].sensors, seed, 0)>>]

(***************************************************************************)
(* State                                                                   *)
(***************************************************************************)

VARIABLES
    fsi,               \* the input folders now: FsConfigs[fsi]
    rack_files,        \* dict rack id -> [filename, dataframe]
    rack_data,         \* rack id -> rack entry
    rack_metadata,     \* rack id -> metadata entry
    sensor_categories, \* category -> set of sensor names (absent = empty)
    current_state,     \* sensor name -> value
    pc,                \* where each thread is
    loc,               \* the locals of each thread's load_rack_data call
    query,             \* the rack-scoped request in progress
    pre,               \* history: the registry when the thread's reload began
    dirty,             \* history: the thread's reload overlapped another reload
    settled,           \* history: the input whose reload, overlapping no other,
                       \* produced the registry as it is now (0: none)
    caught,            \* history: the last cycle of data_update_loop raised
    requests,          \* history: the reload requests served so far
    call               \* a function of the program applied on its own: the
                       \* function, its argument and, once it returned, its result

vars == <<fsi, rack_files, rack_data, rack_metadata, sensor_categories, current_state,
          pc, loc, query, pre, dirty, settled, caught, requests, call>>

\* "main" imports the module (the load at module level) and then serves;
\* "bg" is the data_update_loop thread; "req" is the thread of the request
\* being served, one request at a time: a reload (reload_data) or a
\* rack-scoped query.
Threads == {"main", "bg", "req"}

NoCategories == [c \in Categories |-> {}]

\* the registry a reader sees
Registry ==
    [rack_data |-> rack_data, rack_metadata |-> rack_metadata,
     sensor_categories |-> sensor_categories]

EmptyRegistry == [rack_data |-> <<>>, rack_metadata |-> <<>>, sensor_categories |-> NoCategories]

\* network_data names the outcome of load_network_data: NetworkOf[fs][seed]
NoLocals == [network_data |-> [fs |-> 0, seed |-> 0], pos |-> 0, used |-> 0]

NoQuery ==
    [pc |-> "idle", ep |-> "none", rack |-> NoRack, result |-> "none", has_list |-> FALSE,
     available |-> {}, obs |-> EmptyRegistry, during |-> {}]

NoPre == [registry |-> EmptyRegistry, input |-> 0]

\* no function is applied on its own
NoCall == [fn |-> "none", arg |-> <<>>, done |-> FALSE, result |-> <<>>]

\* the pc values inside load_rack_data
ReloadPcs == {"clear", "clear_data", "clear_meta", "clear_cats", "list", "net", "iter"}

InReload(p) == pc[p] \in ReloadPcs

Init ==
    /\ fsi \in 1..NumFs
    /\ rack_files = EmptyDict
    /\ rack_data = <<>>
    /\ rack_metadata = <<>>
    /\ sensor_categories = NoCategories
    /\ current_state = <<>>
    /\ pc = [p \in Threads |-> IF p = "main" THEN "clear" ELSE "idle"]
    /\ loc = [p \in Threads |-> NoLocals]
    /\ query = NoQuery
    /\ pre = [p \in Threads |-> NoPre]
    /\ dirty = [p \in Threads |-> FALSE]
    /\ settled = 0
    /\ caught = FALSE
    /\ requests = 0
    /\ call = NoCall

(***************************************************************************)
(* The environment                                                         *)
(***************************************************************************)

\* the files on disk change, between reload cycles: every reload runs over
\* one set of input files
EnvChange ==
    /\ \A p \in Threads : pc[p] \notin ReloadPcs \cup {"done", "raised"}
    /\ fsi' = (fsi % NumFs) + 1
    /\ UNCHANGED <<call, rack_files, rack_data, rack_metadata, sensor_categories,
                   current_state, pc, loc, query, pre, dirty, settled, caught, requests>>

(***************************************************************************)
(* load_rack_data, step by step                                            *)
(***************************************************************************)

\* thread p enters load_rack_data
BeginReload(p) ==
    /\ pc' = [pc EXCEPT ![p] = "clear"]
    /\ loc' = [loc EXCEPT ![p] = NoLocals]
    /\ pre' = [pre EXCEPT ![p] = [registry |-> Registry, input |-> settled]]
    /\ dirty' = [o \in Threads |->
                    IF o = p THEN \E t \in Threads \ {p} : InReload(t)
                    ELSE dirty[o] \/ InReload(o) \/ pc[o] \in {"done", "raised"}]
    /\ settled' = 0
    /\ query' = [query EXCEPT !.during = @ \ {p}]
    /\ UNCHANGED <<call, fsi, rack_files, rack_data, rack_metadata, sensor_categories,
                   current_state, caught>>

\* thread p leaves load_rack_data, by return or by exception, and goes on at to
Leave(p, to) ==
    /\ pc' = [pc EXCEPT ![p] = to]
    /\ pre' = [pre EXCEPT ![p] = NoPre]
    /\ dirty' = [dirty EXCEPT ![p] = FALSE]
    /\ query' = [query EXCEPT !.during = @ \ {p}]
    /\ UNCHANGED <<call, fsi, rack_files, rack_data, rack_metadata, sensor_categories,
                   current_state, loc, settled, requests>>

\* rack_files.clear()
ClearRackFiles(p) ==
    /\ pc[p] = "clear"
    /\ rack_files' = EmptyDict
    /\ pc' = [pc EXCEPT ![p] = "clear_data"]
    /\ UNCHANGED <<call, fsi, rack_data, rack_metadata, sensor_categories, current_state,
                   loc, query, pre, dirty, settled, caught, requests>>

\* rack_data.clear()
ClearRackData(p) ==
    /\ pc[p] = "clear_data"
    /\ rack_data' = <<>>
    /\ pc' = [pc EXCEPT ![p] = "clear_meta"]
    /\ UNCHANGED <<call, fsi, rack_files, rack_metadata, sensor_categories, current_state,
                   loc, query, pre, dirty, settled, caught, requests>>

\* rack_metadata.clear()
ClearRackMetadata(p) ==
    /\ pc[p] = "clear_meta"
    /\ rack_metadata' = <<>>
    /\ pc' = [pc EXCEPT ![p] = "clear_cats"]
    /\ UNCHANGED <<call, fsi, rack_files, rack_data, sensor_categories, current_state,
                   loc, query, pre, dirty, settled, caught, requests>>

\* sensor_categories.clear()
ClearSensorCategories(p) ==
    /\ pc[p] = "clear_cats"
    /\ sensor_categories' = NoCategories
    /\ pc' = [pc EXCEPT ![p] = "list"]
    /\ UNCHANGED <<call, fsi, rack_files, rack_data, rack_metadata, current_state,
                   loc, query, pre, dirty, settled, caught, requests>>

\* the indices of the files os.listdir returns whose name ends with .csv
CsvFileIndices(files) ==
    SelectSeq([i \in 1..Len(files) |-> i],
              LAMBDA i : EndsWith(files[i].name, <<".","c","s","v">>))

\* `if rack_id:` in the first pass: None and 0 are both refused
AcceptedRackId(rack_id) == rack_id # NoRack /\ rack_id # 0

RECURSIVE FirstPass(_, _, _)
\* rack_numbers as the list of (rack id, index of its first file), in the
\* order the ids first appear
FirstPass(files, idx, acc) ==
    IF idx = <<>> THEN acc
    ELSE LET rack_id == extract_rack_number(files[idx[1]].name)
         IN  IF AcceptedRackId(rack_id) /\ \A j \in 1..Len(acc) : acc[j].rack # rack_id
             THEN FirstPass(files, Tail(idx), Append(acc, [rack |-> rack_id, file |-> idx[1]]))
             ELSE FirstPass(files, Tail(idx), acc)

\* pd.read_csv succeeds on file number j of input i
CanRead(i, j) == FsConfigs[i].csv.files[j].readable

\* a variant of SecondPass in which the first read that raises ends the pass
\* and drops what it had stored
SecondPassAborting(i, queue, files) ==
    IF \A n \in 1..Len(queue) : CanRead(i, queue[n].file)
    THEN [keys |-> files.keys \o [n \in 1..Len(queue) |-> queue[n].rack],
          val  |-> [r \in (DOMAIN files.val) \cup {queue[n].rack : n \in 1..Len(queue)} |->
                       IF r \in DOMAIN files.val THEN files.val[r]
                       ELSE LET n == CHOOSE m \in 1..Len(queue) : queue[m].rack = r
                            IN  [filename  |-> FsConfigs[i].csv.files[queue[n].file].name,
                                 dataframe |-> [kind |-> "file", a |-> i,
                                                b |-> queue[n].file]]]]
    ELSE files

RECURSIVE SecondPass(_, _, _)
\* the second pass over rack_numbers of input i: read the first file of each
\* rack and store it; a read that raises is caught and the rack is left out
SecondPass(i, queue, files) ==
    IF queue = <<>> THEN files
    ELSE LET rack_id == queue[1].rack
             j       == queue[1].file
         IN  SecondPass(i, Tail(queue),
                 IF CanRead(i, j)
                 THEN DictSet(files, rack_id,
                          [filename  |-> FsConfigs[i].csv.files[j].name,
                           dataframe |-> [kind |-> "file", a |-> i, b |-> j]])
                 ELSE files)

\* rack_numbers of each input: (rack id, index of its first file)
RackNumbersOf ==
    [i \in 1..Len(FsConfigs) |->
        FirstPass(FsConfigs[i].csv.files, CsvFileIndices(FsConfigs[i].csv.files), <<>>)]

RECURSIVE SampleRackFiles(_, _, _)
\* the loop of create_sample_racks from rack_id on
SampleRackFiles(seed, rack_id, files) ==
    IF rack_id > SampleRackCount THEN files
    ELSE SampleRackFiles(seed, rack_id + 1,
             DictSet(files, rack_id, SampleRackFile(seed, rack_id)))

\* the folder checks and the two passes over the file names, or
\* create_sample_racks up to its call of update_rack_data
ListSensorFolder(p) ==
    /\ pc[p] = "list"
    /\ LET folder == FsConfigs[fsi].csv
           csv    == CsvFileIndices(folder.files)
       IN  \/ /\ folder.state = "error"
              /\ pc' = [pc EXCEPT ![p] = "raised"]
              /\ rack_files' = rack_files
           \/ /\ folder.state = "missing" \/ (folder.state = "ok" /\ csv = <<>>)
              /\ \E seed \in 1..NumSeeds :
                    rack_files' = SampleRackFiles(seed, 1, rack_files)
              /\ pc' = [pc EXCEPT ![p] = "net"]
           \/ /\ folder.state = "ok" /\ csv # <<>>
              /\ rack_files' = SecondPass(fsi, RackNumbersOf[fsi], rack_files)
              /\ pc' = [pc EXCEPT ![p] = "net"]
    /\ UNCHANGED <<call, fsi, rack_data, rack_metadata, sensor_categories, current_state,
                   loc, query, pre, dirty, settled, caught, requests>>

\* the items rack_files can hold
RackItems ==
    LET Items(d) == {<<d.keys[j], d.val[d.keys[j]]>> : j \in 1..Len(d.keys)}
    IN  UNION {Items(SecondPass(i, RackNumbersOf[i], EmptyDict)) : i \in 1..Len(FsConfigs)}
        \cup UNION {Items(SampleRackFiles(seed, 1, EmptyDict)) : seed \in 1..NumSeeds}

\* RackUpdate on each item, for the network data of each input and each
\* state of the generator
UpdateOf ==
    [item \in RackItems |->
        [i \in 1..Len(FsConfigs) |->
            [seed \in 1..NumSeeds |-> RackUpdate(item[1], item[2], NetworkOf[i][seed])]]]

\* update_rack_data begins: load_network_data(), then the iteration over
\* rack_files.items() starts.  os.listdir(NETWORK_FOLDER) is outside every
\* try block, so its failure leaves load_rack_data as an exception.
LoadNetwork(p) ==
    /\ pc[p] = "net"
    /\ LET folder == FsConfigs[fsi].net
       IN  \/ /\ folder.state = "error"
              /\ pc' = [pc EXCEPT ![p] = "raised"]
              /\ loc' = [loc EXCEPT ![p] = NoLocals]
           \/ /\ folder.state # "error"
              /\ \E seed \in NetworkSeeds(fsi) :
                    loc' = [loc EXCEPT ![p] = [NoLocals EXCEPT
                                                  !.network_data = [fs |-> fsi, seed |-> seed],
                                                  !.used = Len(rack_files.keys)]]
              /\ pc' = [pc EXCEPT ![p] = "iter"]
    /\ UNCHANGED <<call, fsi, rack_files, rack_data, rack_metadata, sensor_categories,
                   current_state, query, pre, dirty, settled, caught, requests>>

\* the item the iterator of thread p yields next
NextItem(p) ==
    <<rack_files.keys[loc[p].pos + 1], rack_files.val[rack_files.keys[loc[p].pos + 1]]>>

\* the writes of the loop body for one rack to the shared dictionaries
WriteRack(rack_id, upd) ==
    /\ current_state' =
          [y \in (DOMAIN current_state) \cup (DOMAIN upd.writes) |->
              IF y \in DOMAIN upd.writes THEN upd.writes[y] ELSE current_state[y]]
    /\ rack_data' =
          IF upd.any
          THEN [r \in (DOMAIN rack_data) \cup {rack_id} |->
                   IF r = rack_id THEN upd.entry ELSE rack_data[r]]
          ELSE rack_data
    /\ sensor_categories' =
          IF upd.any
          THEN [c \in Categories |-> sensor_categories[c] \cup upd.categories[c]]
          ELSE sensor_categories
    /\ rack_metadata' =
          IF upd.any
          THEN [r \in (DOMAIN rack_metadata) \cup {rack_id} |->
                   IF r = rack_id THEN upd.metadata ELSE rack_metadata[r]]
          ELSE rack_metadata

\* one turn of `for rack_id, rack_info in rack_files.items():` in
\* update_rack_data.  The dict iterator raises RuntimeError when the size of
\* the dict changed since the iteration began; otherwise it yields the entry
\* at its position, and the body runs the row loop, merges the network
\* readings and, `if sensors_dict:`, writes rack_data[rack_id], the
\* categories and rack_metadata[rack_id].
NextRack(p) ==
    /\ pc[p] = "iter"
    /\ \/ /\ Len(rack_files.keys) # loc[p].used
          /\ pc' = [pc EXCEPT ![p] = "raised"]
          /\ loc' = [loc EXCEPT ![p] = NoLocals]
          /\ UNCHANGED <<rack_data, rack_metadata, sensor_categories, current_state, settled>>
       \/ /\ Len(rack_files.keys) = loc[p].used
          /\ loc[p].pos >= Len(rack_files.keys)
          /\ pc' = [pc EXCEPT ![p] = "done"]
          /\ loc' = [loc EXCEPT ![p] = NoLocals]
          /\ settled' = IF dirty[p] THEN 0 ELSE fsi
          /\ UNCHANGED <<rack_data, rack_metadata, sensor_categories, current_state>>
       \/ /\ Len(rack_files.keys) = loc[p].used
          /\ loc[p].pos < Len(rack_files.keys)
          /\ WriteRack(NextItem(p)[1],
                       UpdateOf[NextItem(p)][loc[p].network_data.fs][loc[p].network_data.seed])
          /\ loc' = [loc EXCEPT ![p].pos = @ + 1]
          /\ pc' = pc
          /\ settled' = settled
    /\ UNCHANGED <<call, fsi, rack_files, query, pre, dirty, caught, requests>>

\* one step of load_rack_data in thread p
ReloadStep(p) ==
    \/ ClearRackFiles(p)
    \/ ClearRackData(p)
    \/ ClearRackMetadata(p)
    \/ ClearSensorCategories(p)
    \/ ListSensorFolder(p)
    \/ LoadNetwork(p)
    \/ NextRack(p)

(***************************************************************************)
(* The threads                                                             *)
(***************************************************************************)

\* the load at module level returned: the background thread is started and
\* the server runs
MainServes ==
    /\ pc["main"] = "done"
    /\ Leave("main", "serving")
    /\ UNCHANGED caught

\* the load at module level raised: the import fails and the process ends
MainCrashes ==
    /\ pc["main"] = "raised"
    /\ Leave("main", "crashed")
    /\ UNCHANGED caught

\* data_update_loop: the loop body starts (at thread start, or after the sleep)
BgStart ==
    /\ pc["main"] = "serving"
    /\ pc["bg"] = "idle"
    /\ BeginReload("bg")
    /\ UNCHANGED requests

\* data_update_loop: load_rack_data returned; print, then time.sleep(30)
BgDone ==
    /\ pc["bg"] = "done"
    /\ Leave("bg", "idle")
    /\ caught' = FALSE

\* a variant of BgCatch in which the exception ends the loop
BgCatchStops ==
    /\ pc["bg"] = "raised"
    /\ Leave("bg", "stopped")
    /\ caught' = TRUE

\* data_update_loop: except Exception; print, then time.sleep(30)
BgCatch ==
    /\ pc["bg"] = "raised"
    /\ Leave("bg", "idle")
    /\ caught' = TRUE

\* reload_data: a reload request arrives and calls load_rack_data
ReloadRequest ==
    /\ pc["main"] = "serving"
    /\ pc["req"] = "idle"
    /\ query.pc = "idle"
    /\ requests < MaxReloadRequests
    /\ fsi \in ReloadInputs
    /\ requests' = requests + 1
    /\ BeginReload("req")

\* reload_data: the success response
ReloadSuccess ==
    /\ pc["req"] = "done"
    /\ Leave("req", "idle")
    /\ UNCHANGED caught

\* reload_data: except Exception; the error response
ReloadError ==
    /\ pc["req"] = "raised"
    /\ Leave("req", "idle")
    /\ UNCHANGED caught

(***************************************************************************)
(* The rack-scoped queries                                                 *)
(***************************************************************************)

\* get_rack_metrics, get_rack_network, get_rack_servers, get_server_metrics,
\* debug_rack_status
Endpoints == {"rack", "network", "servers", "server", "debug_status"}

\* the endpoints whose not-found response carries available_racks
ListsAvailable(ep) == ep \in {"rack", "network", "servers"}

\* the rack ids requested
QueryIds == {2}

\* the reloads in progress
Reloading == {p \in Threads : InReload(p)}

\* `if rack_id not in rack_data:` and, when it is not, the 404 response.
\* obs is the registry as the handler of the single-rack query found it, kept
\* when it looked while a reload was in progress (during: those reloads).
QueryCheck(ep, rack_id) ==
    /\ pc["main"] = "serving"
    /\ pc["req"] = "idle"
    /\ query.pc = "idle"
    /\ IF rack_id \notin DOMAIN rack_data
       THEN query' = [NoQuery EXCEPT !.pc = "replied", !.ep = ep, !.rack = rack_id,
                                     !.result = "not_found",
                                     !.has_list = ListsAvailable(ep),
                                     !.available = IF ListsAvailable(ep)
                                                   THEN DOMAIN rack_data ELSE {},
                                     !.obs = IF ep = "rack" /\ Reloading # {}
                                             THEN Registry ELSE EmptyRegistry,
                                     !.during = IF ep = "rack" THEN Reloading ELSE {}]
       ELSE query' = [NoQuery EXCEPT !.pc = "lookup", !.ep = ep, !.rack = rack_id]
    /\ UNCHANGED <<call, fsi, rack_files, rack_data, rack_metadata, sensor_categories,
                   current_state, pc, loc, pre, dirty, settled, caught, requests>>

\* `rack_info = rack_data[rack_id]` and the rest of the handler.  A KeyError
\* is caught by no handler: the request ends as an internal server error.
QueryLookup ==
    /\ query.pc = "lookup"
    /\ IF query.rack \in DOMAIN rack_data
       THEN query' = [query EXCEPT !.pc = "replied", !.result = "ok",
                                   !.obs = IF query.ep = "rack" /\ Reloading # {}
                                           THEN Registry ELSE EmptyRegistry,
                                   !.during = IF query.ep = "rack" THEN Reloading ELSE {}]
       ELSE query' = [query EXCEPT !.pc = "replied", !.result = "unhandled"]
    /\ UNCHANGED <<call, fsi, rack_files, rack_data, rack_metadata, sensor_categories,
                   current_state, pc, loc, pre, dirty, settled, caught, requests>>

\* the response is sent
QueryReturn ==
    /\ query.pc = "replied"
    /\ query' = NoQuery
    /\ UNCHANGED <<call, fsi, rack_files, rack_data, rack_metadata, sensor_categories,
                   current_state, pc, loc, pre, dirty, settled, caught, requests>>

(***************************************************************************)
(* Specification                                                           *)
(***************************************************************************)

Next ==
    \/ EnvChange
    \/ \E p \in Threads : ReloadStep(p)
    \/ MainServes
    \/ MainCrashes
    \/ BgStart
    \/ BgDone
    \/ BgCatch
    \/ ReloadRequest
    \/ ReloadSuccess
    \/ ReloadError
    \/ \E ep \in Endpoints, rack_id \in QueryIds : QueryCheck(ep, rack_id)
    \/ QueryLookup
    \/ QueryReturn

Spec == Init /\ [][Next]_vars

\* the steps of the background thread
BackgroundStep == BgStart \/ ReloadStep("bg") \/ BgDone \/ BgCatch

\* the background thread is scheduled again and again
LiveSpec == Init /\ [][Next]_vars /\ WF_vars(BackgroundStep)

(***************************************************************************)
(* Functions of the program applied on their own                           *)
(***************************************************************************)

\* the variables of the running program
program == <<fsi, rack_files, rack_data, rack_metadata, sensor_categories, current_state,
             pc, loc, query, pre, dirty, settled, caught, requests>>

\* the function fn is about to be applied to arg
Call(fn, arg) == [fn |-> fn, arg |-> arg, done |-> FALSE, result |-> <<>>]

\* the call of fn has returned
Returned(fn) == call.fn = fn /\ call.done

RECURSIVE DictOf(_)
\* the dict that the assignments d[key] = value leave, made in the order of
\* the (key, value) pairs
DictOf(pairs) ==
    IF pairs = <<>> THEN EmptyDict
    ELSE DictSet(DictOf(SubSeq(pairs, 1, Len(pairs) - 1)),
                 pairs[Len(pairs)][1], pairs[Len(pairs)][2])

\* a sensor name: the label and a number
NumberedName(label, i) == label \o <<" ">> \o IntToDigits(i)

MaxCriticalSensors == 2
MaxWarningSensors == 2
MaxNormalSensors == 10

\* a sensor map with nc sensors of status Critical, nw of status Warning and
\* nn of status ok
StatusSensors(nc, nw, nn) ==
    DictOf([i \in 1..(nc + nw + nn) |->
               <<NumberedName(<<"S","e","n","s","o","r">>, i),
                 Reading(0, IF i <= nc THEN <<"C","r","i","t","i","c","a","l">>
                            ELSE IF i <= nc + nw THEN <<"W","a","r","n","i","n","g">>
                            ELSE <<"o","k">>,
                         "sensor", <<>>)>>])

\* the sensor maps calculate_rack_status is applied to: by their counts
RackStatusInputs ==
    {StatusSensors(nc, nw, nn) : nc \in 0..MaxCriticalSensors, nw \in 0..MaxWarningSensors,
                                 nn \in 0..MaxNormalSensors}

\* status texts as the Status column of a sensor table gives them
StatusTexts ==
    { <<"n","o","n","-","c","r","i","t","i","c","a","l">>,
      <<"U","p","p","e","r"," ","N","o","n","-","C","r","i","t","i","c","a","l">>,
      <<"c","r","i","t","i","c","a","l">>,
      <<"L","o","w","e","r"," ","C","r","i","t","i","c","a","l">>,
      <<"N","o","n","-","R","e","c","o","v","e","r","a","b","l","e">>,
      <<"o","k">>, <<"N","o","r","m","a","l">>, <<"W","a","r","n","i","n","g">>,
      <<"n","s">> }

\* the sensor maps with one sensor: a temperature or a fan, below or above
\* the temperature limits, with each status text
OneSensorInputs ==
    {DictOf(<< <<name, Reading(value, status, "sensor", <<>>)>> >>) :
        name \in { <<"C","P","U"," ","T","e","m","p">>, <<"F","A","N","1">> },
        value \in {7000, 8000, 9000}, status \in StatusTexts}

\* status = calculate_rack_status(sensors_dict)
ApplyRackStatus ==
    /\ call.fn = "calculate_rack_status" /\ ~call.done
    /\ call' = [call EXCEPT !.done = TRUE, !.result = calculate_rack_status(call.arg)]
    /\ UNCHANGED program

\* `elif warning_count > 0 and (warning_count / rack_count) > 0.3`, else
\* the initial "normal"; a division by zero raises
WarningOrNormal(warning_count, rack_count) ==
    IF warning_count > 0
    THEN IF rack_count = 0 THEN "ZeroDivisionError"
         ELSE IF 10 * warning_count > 3 * rack_count THEN "warning"
         ELSE "normal"
    ELSE "normal"

\* a variant of OverallStatus whose thresholds are reached at equality
OverallStatusInclusive(critical_count, warning_count, rack_count) ==
    IF critical_count > 0 /\ 5 * critical_count >= rack_count THEN "critical"
    ELSE IF warning_count > 0 /\ 10 * warning_count >= 3 * rack_count THEN "warning"
    ELSE "normal"

\* overall_status: `if critical_count > 0 and (critical_count / rack_count) > 0.2`
OverallStatus(critical_count, warning_count, rack_count) ==
    IF critical_count > 0
    THEN IF rack_count = 0 THEN "ZeroDivisionError"
         ELSE IF 5 * critical_count > rack_count THEN "critical"
         ELSE WarningOrNormal(warning_count, rack_count)
    ELSE WarningOrNormal(warning_count, rack_count)

\* the number of racks of the registry the loop counts under a status
RacksOfStatus(registry, status) ==
    Cardinality({r \in DOMAIN registry : registry[r].status = status})

\* the counters of get_datacenter_status and the status it reports
get_datacenter_status(registry) ==
    [overall_status |-> OverallStatus(RacksOfStatus(registry, "critical"),
                                      RacksOfStatus(registry, "warning"),
                                      Cardinality(DOMAIN registry)),
     rack_count     |-> Cardinality(DOMAIN registry),
     critical_racks |-> RacksOfStatus(registry, "critical"),
     warning_racks  |-> RacksOfStatus(registry, "warning"),
     normal_racks   |-> Cardinality(DOMAIN registry) - RacksOfStatus(registry, "critical")
                            - RacksOfStatus(registry, "warning")]

MaxCriticalRacks == 2
MaxWarningRacks == 3
MaxNormalRacks == 8

\* the entry of a rack whose only sensor has the status text
RackOfStatus(status) ==
    RackEntry(0, [sensors |-> DictOf(<< <<NumberedName(<<"S","e","n","s","o","r">>, 1),
                                         Reading(0, status, "sensor", <<>>)>> >>),
                  count   |-> 1],
              <<>>)

\* a registry of nc critical racks, nw warning racks and nn normal racks
RacksOfCounts(nc, nw, nn) ==
    [r \in 1..(nc + nw + nn) |->
        IF r <= nc THEN RackOfStatus(<<"C","r","i","t","i","c","a","l">>)
        ELSE IF r <= nc + nw THEN RackOfStatus(<<"W","a","r","n","i","n","g">>)
        ELSE RackOfStatus(<<"o","k">>)]

\* the registries get_datacenter_status is applied to: by their counts
DatacenterInputs ==
    {RacksOfCounts(nc, nw, nn) : nc \in 0..MaxCriticalRacks, nw \in 0..MaxWarningRacks,
                                 nn \in 0..MaxNormalRacks}

\* the datacenter-wide status query on a registry
ApplyDatacenterStatus ==
    /\ call.fn = "get_datacenter_status" /\ ~call.done
    /\ call' = [call EXCEPT !.done = TRUE, !.result = get_datacenter_status(call.arg)]
    /\ UNCHANGED program

MaxTemperatureSensors == 5

\* readings in whole degrees: the ends of the accepted range, values inside
\* it and one far outside
TemperatureValues == {0 - 1000, 1000, 2000, 3000, 4000, 12000, 20000}

\* a sensor map with one temperature sensor per value, in the order of the
\* values, and when extras is set also the temperature of a voltage
\* regulator and a fan, both with readings inside the range
TemperatureSensors(values, extras) ==
    DictOf([i \in 1..Len(values) |->
               <<NumberedName(IF i % 2 = 1 THEN <<"C","P","U"," ","T","e","m","p">>
                              ELSE <<"T","e","m","p","e","r","a","t","u","r","e">>, i),
                 Reading(values[i], <<"o","k">>, "sensor", <<>>)>>]
           \o (IF extras
               THEN << <<<<"V","R","M"," ","T","e","m","p"," ","V","o","l","t">>,
                         Reading(3000, <<"o","k">>, "sensor", <<>>)>>,
                       <<<<"F","A","N","1">>, Reading(5000, <<"o","k">>, "sensor", <<>>)>> >>
               ELSE <<>>))

\* the sensor maps calculate_rack_temperature is applied to
TemperatureInputs ==
    {TemperatureSensors(values, TRUE) :
        values \in UNION {[1..n -> TemperatureValues] : n \in 0..MaxTemperatureSensors}}
    \cup {TemperatureSensors(<<>>, FALSE)}

\* 'temperature': calculate_rack_temperature(sensors_dict)
ApplyRackTemperature ==
    /\ call.fn = "calculate_rack_temperature" /\ ~call.done
    /\ call' = [call EXCEPT !.done = TRUE, !.result = calculate_rack_temperature(call.arg)]
    /\ UNCHANGED program

MaxPowerSensors == 3
MaxTemperatureNamed == 2

\* power readings: sums of them fall below, on and above 10000
PowerValues == {250000, 500000, 500100, 1000000, 1000100}

\* names with each of the words calculate_rack_power looks for
PowerLabels == << <<"P","S","U"," ","P","o","w","e","r">>, <<"W","a","t","t","s">>,
                  <<"C","u","r","r","e","n","t">>, <<"A","m","p","s">> >>

\* a sensor map with one power sensor per value and nt sensors with a
\* temperature name, the first of them of a voltage regulator
PowerSensors(values, nt) ==
    DictOf([i \in 1..Len(values) |->
               <<NumberedName(PowerLabels[((i + Len(values)) % 4) + 1], i),
                 Reading(values[i], <<"o","k">>, "sensor", <<>>)>>]
           \o [i \in 1..nt |->
                 <<NumberedName(IF i = 1 THEN <<"V","R","M"," ","V","o","l","t"," ","T","e","m","p">>
                                ELSE <<"T","e","m","p","e","r","a","t","u","r","e">>, i),
                   Reading(4000, <<"o","k">>, "sensor", <<>>)>>]
           \o << <<<<"F","A","N","1">>, Reading(5000, <<"o","k">>, "sensor", <<>>)>> >>)

\* the sensor maps calculate_rack_power is applied to
PowerInputs ==
    {PowerSensors(values, nt) :
        values \in UNION {[1..n -> PowerValues] : n \in 0..MaxPowerSensors},
        nt \in 0..MaxTemperatureNamed}

\* 'power': calculate_rack_power(sensors_dict)
ApplyRackPower ==
    /\ call.fn = "calculate_rack_power" /\ ~call.done
    /\ call' = [call EXCEPT !.done = TRUE, !.result = calculate_rack_power(call.arg)]
    /\ UNCHANGED program

\* interface names, none of them a name of the sample interfaces; and no name
InterfaceCells ==
    {StrCell(<<"e","t","h","0">>), StrCell(<<"e","t","h","7">>), NaNCell}

\* throughputs below, on and above the thresholds; zero, negative and none
ThroughputCells ==
    {IntCell(0), IntCell(0 - 5), IntCell(50), IntCell(85), IntCell(86), IntCell(95),
     IntCell(96), NaNCell}

MaxNetworkRows == 2

\* the network tables with the columns Interface and Throughput
TwoColumnTables ==
    {Table(NetworkCols, rows) :
        rows \in UNION {[1..n -> InterfaceCells \X ThroughputCells] : n \in 0..MaxNetworkRows}}

\* the network tables of one row with a third column, the error count
ThreeColumnTables ==
    {Table(NetworkCols \o << <<"E","r","r","o","r","s">> >>,
           << <<StrCell(<<"e","t","h","0">>), throughput, errors>> >>) :
        throughput \in ThroughputCells, errors \in {IntCell(0), IntCell(3)}}

\* the network tables of one row whose interface column is labelled NIC
NicTables ==
    {Table(<< <<"N","I","C">>, <<"M","b","p","s">> >>,
           << <<StrCell(<<"e","t","h","7">>), throughput>> >>) :
        throughput \in ThroughputCells}

\* states of the random generator: the second makes the first draw for the
\* first file fall within 0.005 of 80
CallSeeds == {1, 28546}

\* the files load_network_data reads: a table and the state of the generator
NetworkFileInputs ==
    {[table |-> table, seed |-> seed] :
        table \in TwoColumnTables \cup ThreeColumnTables \cup NicTables, seed \in CallSeeds}

\* the body of the file loop of load_network_data on one file, the first
ApplyNetworkFile ==
    /\ call.fn = "load_network_data" /\ ~call.done
    /\ call' = [call EXCEPT !.done = TRUE,
                            !.result = NetworkFileEntry(File(FileRack1, TRUE, call.arg.table),
                                                        call.arg.seed, 1)]
    /\ UNCHANGED program

\* sensor names with the words of one category, and of two
SensorNames ==
    {<<"C","P","U"," ","T","e","m","p">>, <<"V","R","M"," ","V","o","l","t"," ","T","e","m","p">>,
      <<"T","h","e","r","m","a","l"," ","Z","o","n","e">>, <<"I","n","l","e","t"," ","T","e","m","p","e","r","a","t","u","r","e">>,
      <<"P","S","U"," ","P","o","w","e","r">>, <<"1","2","V"," ","C","u","r","r","e","n","t">>,
      <<"C","P","U"," ","C","o","r","e">>, <<"C","P","U"," ","F","a","n">>,
      <<"M","e","m","o","r","y"," ","P","o","w","e","r">>, <<"D","I","M","M"," ","A","1">>,
      <<"P","1","-","D","I","M","M","A","1"," ","T","e","m","p">>, <<"F","A","N","1">>,
      <<"F","a","n"," ","P","o","r","t">>, <<"N","e","t","w","o","r","k","_","f","a","n","0">>,
      <<"N","e","t","w","o","r","k","_","e","t","h","0">>, <<"e","t","h","0">>,
      <<"P","o","r","t"," ","1">>, <<"N","I","C"," ","D","i","s","k">>,
      <<"D","i","s","k"," ","I","O">>, <<"D","i","s","k"," ","H","u","m","i","d","i","t","y">>,
      <<"H","u","m","i","d","i","t","y">>, <<"C","h","a","s","s","i","s">>,
      <<"N","e","t","w","o","r","k","_","t","e","m","p","0">>, <<"N","e","t","w","o","r","k","_","c","p","u","0">> }

\* the sensors the categorisation is applied to: each name as a reading of a
\* sensor table and as a network reading
ClassifyInputs ==
    {[name |-> name, reading |-> Reading(0, <<"o","k">>, type, <<>>)] :
        name \in SensorNames, type \in {"sensor", "network"}}

\* one turn of the categorisation loop of update_rack_data
ApplyClassify ==
    /\ call.fn = "classify" /\ ~call.done
    /\ call' = [call EXCEPT !.done = TRUE,
                            !.result = SensorCategory(call.arg.name, call.arg.reading)]
    /\ UNCHANGED program

\* the cells the value parser is applied to: a missing value, numbers, a
\* number in noise, text without number, and the words float() reads
ValueCells ==
    {NaNCell, IntCell(42), IntCell(0 - 3), FloatCell(4250),
     StrCell(<<"4","2",".","5","C">>), StrCell(<<"4","2",".","5">>), StrCell(<<" ","1","7"," ">>),
     StrCell(<<"-","3",".","2","5","V">>), StrCell(<<"t","e","m","p",":"," ","9">>),
     StrCell(<<"a","b","c">>), StrCell(<<>>), StrCell(<<"i","n","f","o">>),
     StrCell(<<"i","n","f">>), StrCell(<<"-","i","n","f">>),
     StrCell(<<"I","n","f","i","n","i","t","y">>), StrCell(<<"n","a","n">>),
     StrCell(<<"+","N","a","N">>)}

\* parse_sensor_value(value)
ApplyParseValue ==
    /\ call.fn = "parse_sensor_value" /\ ~call.done
    /\ call' = [call EXCEPT !.done = TRUE, !.result = parse_sensor_value(call.arg)]
    /\ UNCHANGED program

\* the cells of a sensor row: the name (a name, a blank, a missing value),
\* the value and the status
NameCells ==
    {StrCell(<<"C","P","U","1"," ","T","e","m","p">>), StrCell(<<"F","A","N","1">>),
     StrCell(<<"N","e","t","w","o","r","k","_","e","t","h","0">>), StrCell(<<" ">>), NaNCell}

RowValueCells == {IntCell(55), StrCell(<<"i","n","f">>), StrCell(<<" ","n","a","n">>)}

StatusCells == {StrCell(<<"o","k">>), NaNCell}

SensorRows ==
    {<<name, value, status>> : name \in NameCells, value \in RowValueCells, status \in StatusCells}

MaxSensorRows == 2

\* the sensor tables with the columns Sensor, Value, Status
SensorTables ==
    {Table(SensorCols, rows) : rows \in UNION {[1..n -> SensorRows] : n \in 0..MaxSensorRows}}

\* labellings of the columns of a sensor table that name no value column
ValueLessLabels ==
    { << <<"S","e","n","s","o","r">>, <<"T","e","m","p">>, <<"S","t","a","t","u","s">> >>,
      << <<"T","e","m","p">>, <<"S","e","n","s","o","r">> >>,
      << <<"S","t","a","t","u","s">>, <<"S","e","n","s","o","r">>, <<"T","e","m","p">> >>,
      << <<"S","e","n","s","o","r">>, <<"U","n","i","t","s">>, <<"T","e","m","p">> >>,
      << <<"S","e","n","s","o","r">>, <<"U","n","i","t">>, <<"T","e","m","p">> >>,
      << <<"N","a","m","e">>, <<"T","e","m","p">> >>,
      << <<"s","e","n","s","o","r","_","n","a","m","e">>, <<"T","e","m","p">> >>,
      << <<"S","e","n","s","o","r">> >> }

\* the cell of a row under a label: the sensor's name, 55 degrees, ok, C
LabelledCell(label, name) ==
    IF Contains(Lower(label), <<"s","e","n","s","o","r">>) \/ Contains(Lower(label), <<"n","a","m","e">>)
    THEN StrCell(name)
    ELSE IF Contains(Lower(label), <<"s","t","a","t","u","s">>) THEN StrCell(<<"o","k">>)
    ELSE IF Contains(Lower(label), <<"u","n","i","t">>) THEN StrCell(<<"C">>)
    ELSE IntCell(55)

\* the one-row tables under these labellings
LabelledTables ==
    {Table(cols, << [i \in 1..Len(cols) |-> LabelledCell(cols[i], name)] >>) :
        cols \in ValueLessLabels,
        name \in { <<"C","P","U","1"," ","T","e","m","p">>, <<"I","n","l","e","t">> }}

\* network_data as update_rack_data finds it for rack 1: no entry, or the
\* entry of a network table with the interface eth0
RackNetworks ==
    { <<>>, <<NetworkFileEntry(File(FileRack1, TRUE, TableNetBusy), 1, 1)>> }

\* the tables and network data the loops that fill sensors_dict are applied to
SensorsDictInputs ==
    {[table |-> table, network_data |-> network_data] :
        table \in SensorTables \cup LabelledTables, network_data \in RackNetworks}

\* the two loops of update_rack_data that fill sensors_dict, for rack 1
ApplySensorsDict ==
    /\ call.fn = "update_rack_data" /\ ~call.done
    /\ call' = [call EXCEPT !.done = TRUE,
                            !.result = RackSensors(1,
                                ProcessSensorRows(call.arg.table, 1,
                                    [sensors |-> EmptyDict, count |-> 0, state |-> <<>>]),
                                call.arg.network_data)]
    /\ UNCHANGED program

MaxCpuTempSensors == 2
MaxCpuFans == 3
MaxServerId == 4

\* the totals of the network readings of a rack (0: the rack has none)
NetworkTotals == {0, 3600, 18000}

\* the sensor map of a rack with nt CPU temperature sensors (80 and 90
\* degrees), nf CPU fans, when extras is set an inlet temperature and a power
\* supply, and a network reading of the given total
ServerSensors(nt, nf, extras, total) ==
    DictOf([i \in 1..nt |->
               <<<<"C","P","U">> \o IntToDigits(i) \o <<" ","T","e","m","p">>,
                 Reading(7000 + 1000 * i, <<"o","k">>, "sensor", <<>>)>>]
           \o [i \in 1..nf |->
               <<<<"C","P","U">> \o IntToDigits(i) \o <<" ","F","a","n">>,
                 Reading(120000, <<"o","k">>, "sensor", <<>>)>>]
           \o (IF extras
               THEN << <<<<"I","n","l","e","t"," ","T","e","m","p">>,
                         Reading(2200, <<"o","k">>, "sensor", <<>>)>>,
                       <<<<"P","S","U"," ","P","o","w","e","r">>,
                         Reading(90000, <<"o","k">>, "sensor", <<>>)>> >>
               ELSE <<>>)
           \o (IF total > 0
               THEN << <<<<"N","e","t","w","o","r","k","_","e","t","h","0">>,
                         Reading(total, <<"o","k">>, "network", <<"e","t","h","0">>)>> >>
               ELSE <<>>))

\* the rack tables the server queries are made on: rack 1 with such a sensor
\* map (a rack is stored only with a sensor)
ServerRegistries ==
    {<<RackEntry(1, [sensors |-> ServerSensors(nt, nf, extras, total),
                     count |-> nt + nf + (IF extras THEN 2 ELSE 0) + (IF total > 0 THEN 1 ELSE 0),
                     state |-> <<>>], <<>>)>> :
        nt \in 0..MaxCpuTempSensors, nf \in 0..MaxCpuFans, extras \in BOOLEAN,
        total \in NetworkTotals} \ {<<RackEntry(1, [sensors |-> EmptyDict, count |-> 0, state |-> <<>>], <<>>)>>}

\* the server-list queries: for rack 1 and for a rack that is not stored
ServerListInputs ==
    {[registry |-> registry, rack_id |-> rack_id, seed |-> seed] :
        registry \in ServerRegistries, rack_id \in {1, 2}, seed \in CallSeeds}

\* GET /api/rack/<rack_id>/servers
ApplyRackServers ==
    /\ call.fn = "get_rack_servers" /\ ~call.done
    /\ call' = [call EXCEPT !.done = TRUE,
                            !.result = get_rack_servers(call.arg.registry, call.arg.rack_id,
                                                        call.arg.seed)]
    /\ UNCHANGED program

\* the single-server queries
ServerInputs ==
    {[registry |-> registry, rack_id |-> rack_id, server_id |-> server_id, seed |-> seed] :
        registry \in ServerRegistries, rack_id \in {1, 2}, server_id \in 0..MaxServerId,
        seed \in CallSeeds}

\* GET /api/rack/<rack_id>/server/<server_id>
ApplyServerMetrics ==
    /\ call.fn = "get_server_metrics" /\ ~call.done
    /\ call' = [call EXCEPT !.done = TRUE,
                            !.result = get_server_metrics(call.arg.registry, call.arg.rack_id,
                                                          call.arg.server_id, call.arg.seed)]
    /\ UNCHANGED program

\* the program is as at its start, and one function is about to be applied
\* to one of the inputs under study
CallInit ==
    /\ \/ \E sensors \in RackStatusInputs \cup OneSensorInputs :
              call = Call("calculate_rack_status", sensors)
       \/ \E registry \in DatacenterInputs : call = Call("get_datacenter_status", registry)
       \/ \E sensors \in TemperatureInputs : call = Call("calculate_rack_temperature", sensors)
       \/ \E sensors \in PowerInputs : call = Call("calculate_rack_power", sensors)
       \/ \E file \in NetworkFileInputs : call = Call("load_network_data", file)
       \/ \E sensor \in ClassifyInputs : call = Call("classify", sensor)
       \/ \E value \in ValueCells : call = Call("parse_sensor_value", value)
       \/ \E rack \in SensorsDictInputs : call = Call("update_rack_data", rack)
       \/ \E request \in ServerListInputs : call = Call("get_rack_servers", request)
       \/ \E request \in ServerInputs : call = Call("get_server_metrics", request)
    /\ fsi = 1
    /\ rack_files = EmptyDict
    /\ rack_data = <<>>
    /\ rack_metadata = <<>>
    /\ sensor_categories = NoCategories
    /\ current_state = <<>>
    /\ pc = [p \in Threads |-> IF p = "main" THEN "clear" ELSE "idle"]
    /\ loc = [p \in Threads |-> NoLocals]
    /\ query = NoQuery
    /\ pre = [p \in Threads |-> NoPre]
    /\ dirty = [p \in Threads |-> FALSE]
    /\ settled = 0
    /\ caught = FALSE
    /\ requests = 0

CallNext ==
    \/ ApplyRackStatus
    \/ ApplyDatacenterStatus
    \/ ApplyRackTemperature
    \/ ApplyRackPower
    \/ ApplyNetworkFile
    \/ ApplyClassify
    \/ ApplyParseValue
    \/ ApplySensorsDict
    \/ ApplyRackServers
    \/ ApplyServerMetrics

\* each function applied to each of its inputs
CallSpec == CallInit /\ [][CallNext]_vars

(***************************************************************************)
(* Properties                                                              *)
(***************************************************************************)

\* thread p has just completed a reload that overlapped no other reload, so
\* the registry is the outcome of that reload alone
Completed(p) == pc[p] = "done" /\ ~dirty[p]

\* thread p's reload has just ended with an exception, having overlapped no
\* other reload
Failed(p) == pc[p] = "raised" /\ ~dirty[p]

\* input i has sensor table files: no placeholder racks are synthesized
HasSensorFiles(i) ==
    FsConfigs[i].csv.state = "ok" /\ CsvFileIndices(FsConfigs[i].csv.files) # <<>>

\* every readable network table of input i yields at least one parsed interface
NetworkTablesParse(i) ==
    \A k \in 1..Len(FsConfigs[i].net.files) :
        LET file == FsConfigs[i].net.files[k]
        IN  file.readable =>
                ParseNetworkRows(file.table, 1, [data |-> EmptyDict, count |-> 0]).data.keys
                    # <<>>

\* C1: a reader that looks at the registry while a reload is in progress
\* finds either the registry as it was before that reload or the registry as
\* that reload leaves it.
ReaderSeesSnapshot ==
    \A p \in Threads :
        (Completed(p) /\ p \in query.during /\ query.result \in {"ok", "not_found"})
            => query.obs \in {pre[p].registry, Registry}

\* C2: when a reload ends with an exception, the registry is what it was
\* before that reload started.
FailedReloadKeepsRegistry ==
    \A p \in Threads : Failed(p) => Registry = pre[p].registry

\* C3: at most one execution of load_rack_data is in progress.
ReloadsSerialized == Cardinality(Reloading) <= 1

\* C4: a single-rack, network-detail or server-list query never ends in an
\* unhandled failure.
QueryNeverUnhandled ==
    query.ep \in {"rack", "network", "servers"} => query.result # "unhandled"

\* C5: the not-found result of every query that takes a rack id carries the
\* list of the rack ids in the registry.
NotFoundListsRacks == query.result = "not_found" => query.has_list

\* the names of the sensor rows in the registry
RowSensorNames ==
    UNION {{k \in DOMAIN rack_data[r].sensors.val : rack_data[r].sensors.val[k].type = "sensor"} :
              r \in DOMAIN rack_data}

\* C6: after a completed reload, current_state holds exactly the sensor
\* names of the input of that reload.
CurrentStateReflectsInput ==
    \A p \in Threads : Completed(p) => DOMAIN current_state = RowSensorNames

\* C7, as stated: over an input whose network tables each yield a parsed
\* interface, a completed reload that follows a completed reload of the same
\* input leaves the same rack table.
ReloadIdempotentAnyInput ==
    \A p \in Threads :
        (Completed(p) /\ pre[p].input = fsi /\ NetworkTablesParse(fsi))
            => rack_data = pre[p].registry.rack_data

\* C7, amended: the same, over an input that has at least one sensor table
\* file (no placeholder racks are synthesized).
ReloadIdempotent ==
    \A p \in Threads :
        (Completed(p) /\ pre[p].input = fsi /\ NetworkTablesParse(fsi) /\ HasSensorFiles(fsi))
            => rack_data = pre[p].registry.rack_data

\* C7 witness: a second completed reload of the input with sensor files and
\* a parsed network table, the rack table holding a rack with its interface
ReloadIdempotentWitness ==
    \E p \in Threads :
        /\ Completed(p) /\ pre[p].input = fsi
        /\ NetworkTablesParse(fsi) /\ HasSensorFiles(fsi)
        /\ \E r \in DOMAIN rack_data : rack_data[r].network.interface_count > 0

\* C8: whenever a cycle of the background loop raises, the loop begins
\* another cycle.
BackgroundLoopRetries == (pc["bg"] = "raised") ~> (pc["bg"] = "clear")

\* C8 witness: the background loop caught an exception and has begun its
\* next cycle
BackgroundLoopRetriesWitness == caught /\ pc["bg"] = "clear"

\* the network-kind sensors of a rack entry
NetworkSensors(entry) ==
    {k \in DOMAIN entry.sensors.val : entry.sensors.val[k].type = "network"}

HasNamedRow(table) ==
    \E n \in 1..Len(table.rows) : SensorRowName(table.cols, table.rows[n]) # <<>>

\* the racks of input i whose file (the first table file listed with their
\* id, a positive number) is readable and has a named row
LoadableRacks(i) ==
    LET files == FsConfigs[i].csv.files
        IsCsv(j)  == EndsWith(files[j].name, <<".","c","s","v">>)
        Id(j)     == extract_rack_number(files[j].name)
        First(j)  == \A e \in 1..(j - 1) : ~(IsCsv(e) /\ Id(e) = Id(j))
    IN  {Id(j) : j \in {e \in 1..Len(files) :
                          /\ IsCsv(e) /\ Id(e) > 0 /\ First(e)
                          /\ files[e].readable /\ HasNamedRow(files[e].table)}}

\* C10: after a completed reload over sensor files, the racks in the
\* registry are exactly those whose file is readable and has a named row:
\* unreadable files and files without rack id are left out and stop no other.
FileErrorsContained ==
    \A p \in Threads :
        (Completed(p) /\ HasSensorFiles(fsi)) => DOMAIN rack_data = LoadableRacks(fsi)

\* C10 witness: a completed reload of the input whose first file is
\* unreadable, with rack 1 loaded and rack 2 left out
FileErrorsContainedWitness ==
    \E p \in Threads :
        /\ Completed(p) /\ fsi = 1
        /\ ~FsConfigs[1].csv.files[1].readable
        /\ 1 \in DOMAIN rack_data /\ 2 \notin DOMAIN rack_data

\* the sensor names in the sensor maps of the racks of the registry
RegistrySensorNames == UNION {DOMAIN rack_data[r].sensors.val : r \in DOMAIN rack_data}

RECURSIVE SumOfSizes(_, _)
\* the sum of the sizes of the sets index[c], c in cs
SumOfSizes(index, cs) ==
    IF cs = {} THEN 0
    ELSE LET c == CHOOSE x \in cs : TRUE
         IN  Cardinality(index[c]) + SumOfSizes(index, cs \ {c})

\* C20: after a completed reload no sensor name is in two sets of the
\* category index, and the sizes of the sets sum to the number of distinct
\* sensor names in the sensor maps of the racks of the registry.
CategoryIndexPartitions ==
    \A p \in Threads :
        Completed(p) =>
            /\ \A c \in Categories, d \in Categories :
                  c # d => sensor_categories[c] \cap sensor_categories[d] = {}
            /\ SumOfSizes(sensor_categories, Categories) = Cardinality(RegistrySensorNames)

\* C20 witness: a completed reload that left two racks, names in two
\* categories and a network reading among them
CategoryIndexPartitionsWitness ==
    \E p \in Threads :
        /\ Completed(p)
        /\ Cardinality(DOMAIN rack_data) >= 2
        /\ sensor_categories["temperature"] # {}
        /\ sensor_categories["network"] # {}
        /\ \E r \in DOMAIN rack_data : NetworkSensors(rack_data[r]) # {}

(***************************************************************************)
(* Properties of the functions applied on their own                        *)
(***************************************************************************)

\* C11: calculate_rack_status returns unknown for a map without sensors;
\* otherwise critical when there are critical sensors and they are strictly
\* more than a tenth of all sensors; otherwise warning when there are warning
\* sensors and they are strictly more than a fifth of all; otherwise normal.
RackStatusByRatio ==
    Returned("calculate_rack_status") =>
        LET total         == Cardinality(DOMAIN call.arg.val)
            criticalCount == StatusCount(call.arg, "critical")
            warningCount  == StatusCount(call.arg, "warning")
        IN  call.result =
                IF total = 0 THEN "unknown"
                ELSE IF criticalCount > 0 /\ 10 * criticalCount > total THEN "critical"
                ELSE IF warningCount > 0 /\ 5 * warningCount > total THEN "warning"
                ELSE "normal"

\* C11 witness: one critical sensor among ten is at the threshold, and the
\* rack is normal
RackStatusByRatioWitness ==
    /\ Returned("calculate_rack_status")
    /\ Cardinality(DOMAIN call.arg.val) = 10
    /\ StatusCount(call.arg, "critical") = 1
    /\ call.result = "normal"

\* the status text of the only sensor of the map the call is applied to,
\* lowered
OnlyStatus == Lower(call.arg.val[call.arg.keys[1]].status)

\* C12: calculate_rack_status counts a sensor of status non-critical as a
\* warning sensor; one whose status holds critical or non-recoverable, and
\* not non-critical, as critical; one whose status holds ok or normal, and
\* none of the other words, as normal.  (A rack of one sensor has the status
\* its sensor is counted as.)
NonCriticalCountsAsWarning ==
    (Returned("calculate_rack_status") /\ Len(call.arg.keys) = 1) =>
        /\ OnlyStatus = <<"n","o","n","-","c","r","i","t","i","c","a","l">>
              => call.result = "warning"
        /\ (/\ \/ Contains(OnlyStatus, <<"c","r","i","t","i","c","a","l">>)
                \/ Contains(OnlyStatus, <<"n","o","n","-","r","e","c","o","v","e","r","a","b","l","e">>)
             /\ ~Contains(OnlyStatus, <<"n","o","n","-","c","r","i","t","i","c","a","l">>))
              => call.result = "critical"
        /\ (/\ \/ Contains(OnlyStatus, <<"o","k">>)
                \/ Contains(OnlyStatus, <<"n","o","r","m","a","l">>)
             /\ ~Contains(OnlyStatus, <<"c","r","i","t","i","c","a","l">>)
             /\ ~Contains(OnlyStatus, <<"n","o","n","-","r","e","c","o","v","e","r","a","b","l","e">>)
             /\ ~Contains(OnlyStatus, <<"w","a","r","n","i","n","g">>))
              => call.result = "normal"

\* C13: the datacenter-wide status is critical when the critical racks are
\* strictly more than a fifth of the racks, otherwise warning when the
\* warning racks are strictly more than three tenths, otherwise normal; with
\* no rack at all it is normal, and no division fails.
DatacenterStatusByRatio ==
    Returned("get_datacenter_status") =>
        LET totalRacks    == Cardinality(DOMAIN call.arg)
            criticalRacks == Cardinality({r \in DOMAIN call.arg :
                                            call.arg[r].status = "critical"})
            warningRacks  == Cardinality({r \in DOMAIN call.arg :
                                            call.arg[r].status = "warning"})
        IN  call.result.overall_status =
                IF totalRacks = 0 THEN "normal"
                ELSE IF 5 * criticalRacks > totalRacks THEN "critical"
                ELSE IF 10 * warningRacks > 3 * totalRacks THEN "warning"
                ELSE "normal"

\* C13 witness: one critical rack among five is at the threshold, and the
\* datacenter is not critical
DatacenterStatusByRatioWitness ==
    /\ Returned("get_datacenter_status")
    /\ call.result.rack_count = 5
    /\ call.result.critical_racks = 1
    /\ call.result.overall_status # "critical"

\* r, in hundredths, is the mean of the readings xs rounded to d decimals:
\* a multiple of unit = 10^(2-d) hundredths that is within half a unit of
\* the mean
IsRoundedMean(r, xs, unit) ==
    /\ r % unit = 0
    /\ 2 * (Len(xs) * r - SumSeq(xs)) <= unit * Len(xs)
    /\ 2 * (SumSeq(xs) - Len(xs) * r) <= unit * Len(xs)

\* the readings, in the order of the map, of the sensors whose name holds a
\* temperature word and not volt, and whose reading is strictly between -10
\* and 120
PlausibleTemperatures(sensors) ==
    LET Counts(k) ==
            /\ \/ Contains(Lower(k), <<"t","e","m","p">>)
               \/ Contains(Lower(k), <<"t","e","m","p","e","r","a","t","u","r","e">>)
            /\ ~Contains(Lower(k), <<"v","o","l","t">>)
            /\ sensors.val[k].value > 0 - 1000
            /\ sensors.val[k].value < 12000
        names == SelectSeq(sensors.keys, Counts)
    IN  [i \in 1..Len(names) |-> sensors.val[names[i]].value]

\* the sorted samples at the indices floor(n/4) up to but excluding
\* floor(3n/4), counted from 0
MiddleHalf(samples) ==
    SubSeq(Sorted(samples), (Len(samples) \div 4) + 1, (3 * Len(samples)) \div 4)

\* C14: calculate_rack_temperature gives 40.0 when no sensor has a
\* temperature name without volt and a reading strictly inside (-10, 120);
\* the mean of all such readings when they are at most four; the mean of
\* the middle half of the sorted readings, never empty, when they are more.
\* The mean is given rounded to one decimal.
TemperatureIsTrimmedMean ==
    Returned("calculate_rack_temperature") =>
        IF Len(PlausibleTemperatures(call.arg)) = 0 THEN call.result = 4000
        ELSE IF Len(PlausibleTemperatures(call.arg)) <= 4
        THEN IsRoundedMean(call.result, PlausibleTemperatures(call.arg), 10)
        ELSE /\ MiddleHalf(PlausibleTemperatures(call.arg)) # <<>>
             /\ IsRoundedMean(call.result, MiddleHalf(PlausibleTemperatures(call.arg)), 10)

\* C14 witness: five plausible readings, not in sorted order, whose middle
\* half has another mean than the five
TemperatureIsTrimmedMeanWitness ==
    /\ Returned("calculate_rack_temperature")
    /\ Len(PlausibleTemperatures(call.arg)) = 5
    /\ PlausibleTemperatures(call.arg) # Sorted(PlausibleTemperatures(call.arg))
    /\ ~IsRoundedMean(call.result, PlausibleTemperatures(call.arg), 10)

\* the readings, in the order of the map, of the sensors whose name holds
\* power, watt, current or amp
PowerReadings(sensors) ==
    LET Counts(k) ==
            \/ Contains(Lower(k), <<"p","o","w","e","r">>)
            \/ Contains(Lower(k), <<"w","a","t","t">>)
            \/ Contains(Lower(k), <<"c","u","r","r","e","n","t">>)
            \/ Contains(Lower(k), <<"a","m","p">>)
        names == SelectSeq(sensors.keys, Counts)
    IN  [i \in 1..Len(names) |-> sensors.val[names[i]].value]

\* the number of sensors whose name holds temp or temperature
TemperatureNamed(sensors) ==
    Cardinality({k \in DOMAIN sensors.val :
                    \/ Contains(Lower(k), <<"t","e","m","p">>)
                    \/ Contains(Lower(k), <<"t","e","m","p","e","r","a","t","u","r","e">>)})

\* C15: calculate_rack_power, when the map has sensors named power, watt,
\* current or amp, gives the sum of their readings, divided by 1000 when
\* the sum is strictly above 10000 (the quotient is given to two decimals);
\* when it has none, 1.0 + 0.05 for each sensor with a temperature name.
PowerIsSumOrEstimate ==
    Returned("calculate_rack_power") =>
        IF PowerReadings(call.arg) # <<>>
        THEN IF SumSeq(PowerReadings(call.arg)) > 1000000
             THEN /\ 2 * (1000 * call.result - SumSeq(PowerReadings(call.arg))) <= 1000
                  /\ 2 * (SumSeq(PowerReadings(call.arg)) - 1000 * call.result) <= 1000
             ELSE call.result = SumSeq(PowerReadings(call.arg))
        ELSE call.result = 100 + 5 * TemperatureNamed(call.arg)

\* C15 witness: the power readings sum to exactly 10000, and the sum is
\* given as it is
PowerIsSumOrEstimateWitness ==
    /\ Returned("calculate_rack_power")
    /\ Len(PowerReadings(call.arg)) = 2
    /\ SumSeq(PowerReadings(call.arg)) = 1000000
    /\ call.result = 1000000

\* the rows of the table read whose throughput column holds a value that
\* is zero or negative, and whose interface name no other row bears
NonPositiveRows ==
    LET cols == call.arg.table.cols
        rows == call.arg.table.rows
    IN  {i \in 1..Len(rows) :
            /\ NetworkRowName(cols, rows[i]) # <<>>
            /\ ThroughputColumn(cols, rows[i]) # 0
            /\ parse_sensor_value(rows[i][ThroughputColumn(cols, rows[i])]) <= 0
            /\ \A j \in 1..Len(rows) :
                  j # i => NetworkRowName(cols, rows[j]) # NetworkRowName(cols, rows[i])}

\* C16: the network loader drops every row whose throughput column parses
\* to zero or less, so that the row gives no interface; and every interface
\* of the result has a throughput above zero.
NonPositiveRowsDropped ==
    Returned("load_network_data") =>
        /\ \A i \in NonPositiveRows :
              ~DictHas(call.result.data,
                       NetworkRowName(call.arg.table.cols, call.arg.table.rows[i]))
        /\ \A k \in DOMAIN call.result.data.val : call.result.data.val[k].value > 0

\* the rows of the table read gave no interface
NothingParsed ==
    ParseNetworkRows(call.arg.table, 1, [data |-> EmptyDict, count |-> 0]).data.keys = <<>>

\* the result of the loader holds eth1, eth2, eth3 and eth4, in this order,
\* each with status ok and a throughput from 10 to below or up to 80
FourSampleInterfaces(upto) ==
    /\ call.result.data.keys =
          << <<"e","t","h","1">>, <<"e","t","h","2">>, <<"e","t","h","3">>, <<"e","t","h","4">> >>
    /\ call.result.interface_count = 4
    /\ \A k \in DOMAIN call.result.data.val :
          /\ call.result.data.val[k].status = <<"o","k">>
          /\ call.result.data.val[k].value >= 1000
          /\ call.result.data.val[k].value < upto

\* C17, as stated: for a table that yields no interface the loader gives
\* eth1..eth4, each with status ok and a throughput in [10, 80).
SampleThroughputBelow80 ==
    (Returned("load_network_data") /\ NothingParsed) => FourSampleInterfaces(8000)

\* C17, amended: the same, each throughput being a draw from [10, 80)
\* rounded to two decimals, so from 10 up to and including 80; and the
\* loader never gives an empty interface map.
SampleInterfacesSynthesized ==
    Returned("load_network_data") =>
        /\ NothingParsed => FourSampleInterfaces(8001)
        /\ call.result.data.keys # <<>>

\* C17 witness: a table with a row that is dropped, and the four sample
\* interfaces in its place
SampleInterfacesSynthesizedWitness ==
    /\ Returned("load_network_data")
    /\ call.arg.table.rows # <<>>
    /\ NothingParsed
    /\ Len(call.result.data.keys) = 4

\* C18: each interface read from a table is critical above 95, warning
\* above 85 and up to 95, ok otherwise; the network summary is critical
\* when the highest throughput is above 95, warning when it is above 85 and
\* up to 95, normal otherwise, and counts the network readings: it is
\* critical exactly when an interface is.
NetworkStatusByThreshold ==
    (Returned("load_network_data") /\ ~NothingParsed) =>
        LET data == call.result.data
            max  == CHOOSE m \in {data.val[k].value : k \in DOMAIN data.val} :
                        \A k \in DOMAIN data.val : data.val[k].value <= m
        IN  /\ \A k \in DOMAIN data.val :
                  data.val[k].status =
                      IF data.val[k].value > 9500 THEN <<"c","r","i","t","i","c","a","l">>
                      ELSE IF data.val[k].value > 8500 THEN <<"w","a","r","n","i","n","g">>
                      ELSE <<"o","k">>
            /\ call.result.metrics.status =
                  IF max > 9500 THEN "critical"
                  ELSE IF max > 8500 THEN "warning"
                  ELSE "normal"
            /\ call.result.metrics.interface_count = Cardinality(DOMAIN data.val)
            /\ call.result.metrics.status = "critical"
                  <=> \E k \in DOMAIN data.val :
                         data.val[k].status = <<"c","r","i","t","i","c","a","l">>

\* C18 witness: the single row eth0 with throughput 96 gives a critical
\* interface and a critical summary
NetworkStatusByThresholdWitness ==
    /\ Returned("load_network_data")
    /\ Len(call.arg.table.rows) = 1
    /\ DOMAIN call.result.data.val = { <<"e","t","h","0">> }
    /\ call.result.data.val[<<"e","t","h","0">>].value = 9600
    /\ call.result.data.val[<<"e","t","h","0">>].status = <<"c","r","i","t","i","c","a","l">>
    /\ call.result.metrics.status = "critical"

\* the categories in their order of precedence
CategoryPrecedence ==
    <<"temperature", "power", "cpu", "memory", "cooling", "network", "disk", "environment",
      "other">>

\* the rule of category c holds of a sensor with this lowered name and kind
CategoryMatches(c, name, kind) ==
    CASE c = "temperature" -> /\ ContainsAny(name, TemperatureTerms)
                              /\ ~Contains(name, <<"v","o","l","t">>)
      [] c = "power"       -> ContainsAny(name, PowerCategoryTerms)
      [] c = "cpu"         -> ContainsAny(name, CpuTerms)
      [] c = "memory"      -> ContainsAny(name, MemoryTerms)
      [] c = "cooling"     -> ContainsAny(name, CoolingTerms)
      [] c = "network"     -> kind = "network" \/ ContainsAny(name, NetworkTerms)
      [] c = "disk"        -> ContainsAny(name, DiskTerms)
      [] c = "environment" -> ContainsAny(name, EnvironmentTerms)
      [] c = "other"       -> TRUE

\* C19: the classification gives a sensor the first category, in the order
\* of precedence, whose rule holds of it: a name with temp and cpu is
\* temperature, a name with temp and volt is power, a network reading whose
\* name holds fan is cooling.
ClassifiedByPrecedence ==
    Returned("classify") =>
        LET name == Lower(call.arg.name)
            kind == call.arg.reading.type
        IN  /\ call.result \in Categories
            /\ \E i \in 1..Len(CategoryPrecedence) :
                  /\ call.result = CategoryPrecedence[i]
                  /\ CategoryMatches(CategoryPrecedence[i], name, kind)
                  /\ \A j \in 1..(i - 1) : ~CategoryMatches(CategoryPrecedence[j], name, kind)
            /\ (Contains(name, <<"t","e","m","p">>) /\ Contains(name, <<"c","p","u">>)
                   /\ ~Contains(name, <<"v","o","l","t">>)) => call.result = "temperature"
            /\ (Contains(name, <<"t","e","m","p">>) /\ Contains(name, <<"v","o","l","t">>))
                  => call.result = "power"
            /\ (kind = "network" /\ name = <<"n","e","t","w","o","r","k","_","f","a","n","0">>)
                  => call.result = "cooling"

\* C19 witness: the network reading Network_fan0 is filed under cooling
ClassifiedByPrecedenceWitness ==
    /\ Returned("classify")
    /\ call.arg.name = <<"N","e","t","w","o","r","k","_","f","a","n","0">>
    /\ call.arg.reading.type = "network"
    /\ call.result = "cooling"

\* the outcome of the row loop of update_rack_data on a table, begun with an
\* empty sensors_dict
RowLoop(table) ==
    ProcessSensorRows(table, 1, [sensors |-> EmptyDict, count |-> 0, state |-> <<>>])

\* the cell of a row that plays the name role is missing or blank (no column
\* plays the role, the cell is a missing value, or its text is white space)
Nameless(cols, row) ==
    LET c == FirstIndex({i \in 1..Len(cols) :
                            \/ Contains(Lower(cols[i]), <<"s","e","n","s","o","r">>)
                            \/ Contains(Lower(cols[i]), <<"n","a","m","e">>)})
    IN  \/ c = 0
        \/ IsNa(row[c])
        \/ row[c].t = "str" /\ Strip(row[c].s) = <<>>

\* the table without its nameless rows
NamedRows(table) ==
    LET Named(row) == ~Nameless(table.cols, row)
    IN  Table(table.cols, SelectSeq(table.rows, Named))

\* C21: a row whose name cell is missing or blank is skipped: the sensor map
\* and the current-value mapping that the row loop leaves are those it
\* leaves on the table without these rows.
NamelessRowsSkipped ==
    (Returned("update_rack_data") /\ call.arg.network_data = <<>>)
        => /\ call.result.sensors = RowLoop(NamedRows(call.arg.table)).sensors
           /\ call.result.state = RowLoop(NamedRows(call.arg.table)).state

\* the column that plays a role: the first whose label holds one of the words
RoleColumn(cols, words) ==
    FirstIndex({i \in 1..Len(cols) : ContainsAny(Lower(cols[i]), words)})

\* the first column that plays none of the roles name, status and units
FirstUnclaimedColumn(cols) ==
    FirstIndex({i \in 1..Len(cols) :
                   /\ i # RoleColumn(cols, << <<"s","e","n","s","o","r">>, <<"n","a","m","e">> >>)
                   /\ i # RoleColumn(cols, << <<"s","t","a","t","u","s">> >>)
                   /\ i # RoleColumn(cols, << <<"u","n","i","t">> >>)})

\* C22: in a table without a column labelled for the value, the value of a
\* sensor is parsed from the first column that plays none of the roles name,
\* status and units, whatever the labels are.
ValueFromFirstUnclaimed ==
    (Returned("update_rack_data") /\ call.arg.table \in LabelledTables)
        => \A k \in DOMAIN call.result.sensors.val :
              call.result.sensors.val[k].type = "sensor"
                  => call.result.sensors.val[k].value =
                         CellValueAt(call.arg.table.rows[1],
                                     FirstUnclaimedColumn(call.arg.table.cols))

\* a text holds no digit: it represents no number, in noise or not
HasNoDigit(s) == \A i \in 1..Len(s) : ~IsDigit(s[i])

\* C23: the value parser returns a finite number for every input: 0.0 for a
\* missing value and for every text without number, the number itself for a
\* number and for a number wrapped in noise; and every value of the sensor
\* map that the row loop leaves is finite.
ParsedValuesFinite ==
    /\ Returned("parse_sensor_value")
          => /\ IsFinite(call.result)
             /\ IsNa(call.arg) => call.result = 0
             /\ call.arg.t = "int" => call.result = call.arg.n * 100
             /\ call.arg.t = "float" => call.result = call.arg.n
             /\ call.arg = StrCell(<<"4","2",".","5","C">>) => call.result = 4250
             /\ (call.arg.t = "str" /\ HasNoDigit(call.arg.s)) => call.result = 0
    /\ Returned("update_rack_data")
          => \A k \in DOMAIN call.result.sensors.val : IsFinite(call.result.sensors.val[k].value)

\* v is x / y (y > 0) to one decimal, in hundredths: a multiple of a tenth
\* within half a tenth of the quotient
IsTenthOf(v, x, y) ==
    /\ v % 10 = 0
    /\ 2 * (v * y - x) <= 10 * y
    /\ 2 * (x - v * y) <= 10 * y

\* the network usage of server i of n for a rack whose network readings sum
\* to total: min(100, (total / n) * (i / n)), to one decimal
IsNetworkShare(v, total, i, n) ==
    IF total * i > 10000 * n * n THEN v = 10000 ELSE IsTenthOf(v, total * i, n * n)

\* C24: in the server list of a rack with network readings, the network
\* usage of server i is min(100, (total / N) * (i / N)) for the N servers of
\* the list; it is 50 for a rack without network readings.
ServerNetworkShare ==
    (Returned("get_rack_servers") /\ call.result.code = 200)
        => \A i \in 1..call.result.server_count :
              IF NetworkValues(call.arg.registry[1].sensors) = <<>>
              THEN call.result.servers[i].network_usage = 5000
              ELSE IsNetworkShare(call.result.servers[i].network_usage,
                                  SumSeq(NetworkValues(call.arg.registry[1].sensors)),
                                  i, call.result.server_count)

\* the server ids of a server-list response
ListedServerIds(response) == {response.servers[i].server_id : i \in 1..Len(response.servers)}

\* C25: the ids of the servers that the server-list query returns for a
\* rack are exactly the ids for which the single-server query succeeds.
ListedServersRetrievable ==
    (Returned("get_rack_servers") /\ call.result.code = 200)
        => ListedServerIds(call.result) =
               {server_id \in 0..MaxServerId :
                   get_server_metrics(call.arg.registry, call.arg.rack_id, server_id,
                                      call.arg.seed).code = 200}

\* C26: the sensor count that update_rack_data stores for a rack is the
\* number of entries of the rack's sensor map, also when rows repeat a name
\* or a row is named as a network reading.
SensorCountIsMapSize ==
    Returned("update_rack_data") => call.result.count = Len(call.result.sensors.keys)

\* C27: after a completed reload the rack table and the rack metadata hold
\* the same rack ids, all of them ids of loaded rack files and positive, and
\* every stored rack has a sensor and the status normal, warning or critical.
RegistryWellFormed ==
    \A p \in Threads :
        Completed(p) =>
            /\ DOMAIN rack_data = DOMAIN rack_metadata
            /\ DOMAIN rack_data \subseteq DOMAIN rack_files.val
            /\ \A r \in DOMAIN rack_data :
                  /\ r \in Nat \ {0}
                  /\ rack_data[r].sensors.keys # <<>>
                  /\ rack_data[r].status \in {"normal", "warning", "critical"}

\* C27 witness: a completed reload that loaded the file of rack 3, whose
\* table yields no sensor, and left racks 1 and 2 in the rack table
RegistryWellFormedWitness ==
    \E p \in Threads :
        /\ Completed(p)
        /\ 3 \in DOMAIN rack_files.val
        /\ DOMAIN rack_data = {1, 2}

====
